---- MODULE Spec2Model ----
(***************************************************************************)
(* Verification model of the scylla.rs driver core: the worker retry /     *)
(* reprepare protocol (scylla/src/worker, scylla-rs/src/app/worker,        *)
(* src/app/worker), and the reporter / stage stream-id multiplexer that    *)
(* the workers are parked on (described in spec.md 4.4, 4.5 and 5; the     *)
(* reporter sources are not part of src/, so those operators follow the    *)
(* specification text and are marked so in MODEL_MAP.json).                *)
(***************************************************************************)
EXTENDS Integers, Sequences, FiniteSets, TLC

\* ------------------------------------------------------------------ bounds

\* Largest retry count a worker is configured with.
MaxRetries == 2
\* Reporters (one TCP connection each) of the stage.
NumReporters == 2
\* Stream slots per connection (32768 in the protocol, scaled down).
NumStreams == 2

Reporters == 1..NumReporters
StreamIds == 0..(NumStreams - 1)

\* Requests issued in the reporter and stage specifications; one more than
\* the slots available, so that exhaustion and slot reuse both happen.
ReporterRequests == 1..(NumStreams + 1)
StageRequests == 1..(NumReporters * NumStreams + 1)

VARIABLES
    worker,      \* the worker object: [kind, retries]
    configured,  \* whether a retry count was given at construction
    pc,          \* "created" | "inflight" | "preparing" | "done"
    at,          \* [rep, stream] where the frame in flight is parked
    handle,      \* results the caller-visible handle has received, in order
    last,        \* the most recent handle_error call and what it did
    resends,     \* re-sends made through the retry path
    reporters,   \* per reporter: free list, slot table, closed flag
    rr,          \* the stage's round-robin cursor
    wire,        \* per reporter: request frames sent and not yet answered
    reqs,        \* per request: state, slot, and the outcomes it was given
    reading,     \* per reporter: the frame whose header the reader has parsed
    issued,      \* requests handed to send so far
    lastSend     \* what the most recent send did

workerVars == <<worker, configured, pc, at, handle, last, resends>>
stageVars == <<rr, wire, reqs, reading, issued, lastSend>>

\* The other components of the driver; each is driven by a specification of
\* its own and rests in its idle value in the others.
VARIABLES
    prepared,    \* PrepareWorkers and EXECUTE builders constructed so far
    hdr,         \* header codec: the bytes or header given, and what the codec returned
    frame,       \* frame builder: the header and body given, and the frame built
    rows,        \* rows decoder: the result body and the iterator over it
    sel,         \* select builder: bound values, token indexes, and what build returned
    batch,       \* batch collector: builder, id map, the calls made, the request built
    cluster,     \* the cluster supervisor, its children and its callers
    dml,         \* a statement text, its parse and its Display
    conv,        \* worker conversion: the worker given and the worker made from it
    reprepare,   \* reprepare: the EXECUTE request and the QUERY request made from it
    binding,     \* value binding: the binder, what is bound to it, and what bind returned
    flags,       \* header flags: the flags byte, the byte before the last setter call, and that call
    rowiter,     \* row iterator: the result body, the iterator, the rows yielded and the columns read
    nm           \* a Name, its Display text and the parse of that text

auxVars == <<prepared, hdr, frame, rows, sel, batch, cluster, dml, conv, reprepare, binding, flags, rowiter, nm>>

\* Every component but own is idle.
AuxIdle(own) ==
    /\ (IF own = "prepared" THEN TRUE ELSE prepared = {})
    /\ (IF own = "hdr" THEN TRUE ELSE hdr = [stage |-> "idle"])
    /\ (IF own = "frame" THEN TRUE ELSE frame = [stage |-> "idle"])
    /\ (IF own = "rows" THEN TRUE ELSE rows = [stage |-> "idle"])
    /\ (IF own = "sel" THEN TRUE ELSE sel = [stage |-> "idle"])
    /\ (IF own = "batch" THEN TRUE ELSE batch = [stage |-> "idle"])
    /\ (IF own = "cluster" THEN TRUE ELSE cluster = [stage |-> "idle"])
    /\ (IF own = "dml" THEN TRUE ELSE dml = [stage |-> "idle"])
    /\ (IF own = "conv" THEN TRUE ELSE conv = [stage |-> "idle"])
    /\ (IF own = "reprepare" THEN TRUE ELSE reprepare = [stage |-> "idle"])
    /\ (IF own = "binding" THEN TRUE ELSE binding = [stage |-> "idle"])
    /\ (IF own = "flags" THEN TRUE ELSE flags = [stage |-> "idle"])
    /\ (IF own = "rowiter" THEN TRUE ELSE rowiter = [stage |-> "idle"])
    /\ (IF own = "nm" THEN TRUE ELSE nm = [stage |-> "idle"])

AuxUnchanged(own) ==
    /\ (IF own = "prepared" THEN TRUE ELSE UNCHANGED prepared)
    /\ (IF own = "hdr" THEN TRUE ELSE UNCHANGED hdr)
    /\ (IF own = "frame" THEN TRUE ELSE UNCHANGED frame)
    /\ (IF own = "rows" THEN TRUE ELSE UNCHANGED rows)
    /\ (IF own = "sel" THEN TRUE ELSE UNCHANGED sel)
    /\ (IF own = "batch" THEN TRUE ELSE UNCHANGED batch)
    /\ (IF own = "cluster" THEN TRUE ELSE UNCHANGED cluster)
    /\ (IF own = "dml" THEN TRUE ELSE UNCHANGED dml)
    /\ (IF own = "conv" THEN TRUE ELSE UNCHANGED conv)
    /\ (IF own = "reprepare" THEN TRUE ELSE UNCHANGED reprepare)
    /\ (IF own = "binding" THEN TRUE ELSE UNCHANGED binding)
    /\ (IF own = "flags" THEN TRUE ELSE UNCHANGED flags)
    /\ (IF own = "rowiter" THEN TRUE ELSE UNCHANGED rowiter)
    /\ (IF own = "nm" THEN TRUE ELSE UNCHANGED nm)

coreVars == <<workerVars, reporters, stageVars>>

vars == <<worker, configured, pc, at, handle, last, resends,
          reporters, rr, wire, reqs, reading, issued, lastSend, auxVars>>

\* ------------------------------------------------------------ errors

\* ERROR codes of the protocol (spec.md 4.1).
NonRetryableCodes ==
    {"SyntaxError", "Invalid", "Unauthorized", "AlreadyExists", "ConfigError",
     "ProtocolError", "AuthError", "TruncateError"}

RetryableCodes ==
    {"Unavailable", "Overloaded", "IsBootstrapping", "ReadTimeout",
     "WriteTimeout", "ServerError"}

CqlCodes ==
    NonRetryableCodes \cup RetryableCodes
        \cup {"Unprepared", "ReadFailure", "FunctionFailure", "WriteFailure"}

\* WorkerError: a CQL error with its code, a lost connection, or a decoding
\* failure.
CqlError(code) == [type |-> "Cql", code |-> code]
IoError == [type |-> "Io", code |-> "none"]
OtherError == [type |-> "Other", code |-> "none"]
NoError == [type |-> "none", code |-> "none"]
\* A successful result, as the handle receives it.
OkResult == [type |-> "Ok", code |-> "none"]

WorkerErrors == {CqlError(c) : c \in CqlCodes} \cup {IoError}

\* CqlError::take_unprepared_id / unprepared_id: Some(id) exactly for the
\* Unprepared code.
take_unprepared_id(error) == error.type = "Cql" /\ error.code = "Unprepared"

\* ------------------------------------------------------------ workers

WorkerKinds ==
    {"ValueWorker_scylla", "SelectWorker", "ValueWorker_app",
     "PrepareWorker", "RespondingPrepareWorker"}

\* Workers that hold a caller-visible handle (PrepareWorker has none).
HandleKinds == WorkerKinds \ {"PrepareWorker"}

\* SelectWorker::new, ValueWorker::new (src/app), PrepareWorker::new,
\* From<PrepareRequest>: the retry counter starts at 0.
SelectWorker_new == [kind |-> "SelectWorker", retries |-> 0]
ValueWorker_app_new == [kind |-> "ValueWorker_app", retries |-> 0]
PrepareWorker_new == [kind |-> "PrepareWorker", retries |-> 0]

\* IntoRespondingWorker::with_handle: id, retries and request are copied.
PrepareWorker_with_handle(w) ==
    [kind |-> "RespondingPrepareWorker", retries |-> w.retries]

\* ValueWorker::new of the scylla crate takes the retry count as a parameter.
ValueWorker_scylla_new(retries) ==
    [kind |-> "ValueWorker_scylla", retries |-> retries]

\* with_retries: overwrite the counter.
with_retries(w, retries) == [w EXCEPT !.retries = retries]

\* What a handle_error call decided:
\*   "retry"     the request is re-sent through the router
\*   "reprepare" the Unprepared recovery was started on the reporter
\*   "surface"   the error was passed to the caller-visible handle
\*   "drop"      the call returned after logging only
Decision(act, w, error) == [act |-> act, worker |-> w, error |-> error]

\* RetryableWorker::retry: with retries left, decrement and re-send through
\* the router (Ok); otherwise hand the worker back (Err).
RetryableWorker_retry(w) ==
    IF w.retries > 0
    THEN [ok |-> TRUE, worker |-> [w EXCEPT !.retries = @ - 1]]
    ELSE [ok |-> FALSE, worker |-> w]

\* match self.retry() { Ok(_) => Ok(()), Err(worker) => worker.handle.handle_error(error) }
retry_or_handle_error(w, error) ==
    LET r == RetryableWorker_retry(w)
    IN  IF r.ok
        THEN Decision("retry", r.worker, error)
        ELSE Decision("surface", r.worker, error)

\* handle_unprepared_error(worker, id, reporter): Ok when the recovery
\* PREPARE could be handed to the reporter (the statement is known and the
\* reporter takes the frame), Err(worker) otherwise.
handle_unprepared_error(w, error, canPrepare) ==
    IF canPrepare
    THEN Decision("reprepare", w, error)
    ELSE Decision("surface", w, error)

\* A retry branch that re-sends without decrementing the counter.
ValueWorker_scylla_handle_error_keeps_counter(w, error, reporter) ==
    IF error.type = "Cql" /\ take_unprepared_id(error) /\ reporter
    THEN Decision("reprepare", w, error)
    ELSE IF w.retries > 0
         THEN Decision("retry", w, error)
         ELSE Decision("surface", w, error)

\* ValueWorker::handle_error, scylla/src/worker/value.rs.  The result of
\* handle_select_unprepared_error is not inspected: the call returns ().
ValueWorker_scylla_handle_error(w, error, reporter) ==
    IF error.type = "Cql" /\ take_unprepared_id(error) /\ reporter
    THEN Decision("reprepare", w, error)
    ELSE IF w.retries > 0
         THEN Decision("retry", [w EXCEPT !.retries = @ - 1], error)
         ELSE Decision("surface", w, error)

\* An Unprepared branch that goes to the router's retry path even when a
\* reporter is at hand.
SelectWorker_handle_error_reroutes(w, error, reporter, canPrepare) ==
    retry_or_handle_error(w, error)

\* SelectWorker::handle_error, scylla-rs/src/app/worker/select.rs.
SelectWorker_handle_error(w, error, reporter, canPrepare) ==
    IF error.type = "Cql"
    THEN IF error.code = "Unprepared"
         THEN IF reporter
              THEN handle_unprepared_error(w, error, canPrepare)
              ELSE retry_or_handle_error(w, error)
         ELSE retry_or_handle_error(w, error)
    ELSE retry_or_handle_error(w, error)

\* ValueWorker::handle_error, src/app/worker/value.rs.  The reporter is a
\* plain reference here, never absent.
ValueWorker_app_handle_error(w, error, canPrepare) ==
    IF error.type = "Cql"
    THEN IF take_unprepared_id(error)
         THEN handle_unprepared_error(w, error, canPrepare)
         ELSE retry_or_handle_error(w, error)
    ELSE retry_or_handle_error(w, error)

\* PrepareWorker::handle_error: self.retry().ok(); Ok(())
PrepareWorker_handle_error(w, error) ==
    LET r == RetryableWorker_retry(w)
    IN  IF r.ok
        THEN Decision("retry", r.worker, error)
        ELSE Decision("drop", r.worker, error)

\* RespondingPrepareWorker::handle_error.
RespondingPrepareWorker_handle_error(w, error) ==
    retry_or_handle_error(w, error)

\* Worker::handle_error, dispatched on the worker's type.
Worker_handle_error(w, error, reporter, canPrepare) ==
    CASE w.kind = "ValueWorker_scylla" ->
            ValueWorker_scylla_handle_error(w, error, reporter)
      [] w.kind = "SelectWorker" ->
            SelectWorker_handle_error(w, error, reporter, canPrepare)
      [] w.kind = "ValueWorker_app" ->
            ValueWorker_app_handle_error(w, error, canPrepare)
      [] w.kind = "PrepareWorker" ->
            PrepareWorker_handle_error(w, error)
      [] OTHER ->
            RespondingPrepareWorker_handle_error(w, error)

\* Worker::handle_response: what the handle receives (<<>> when the worker
\* has no handle).  ValueWorker (src/app) decodes the rows first and turns a
\* decoding failure into handle_error(WorkerError::Other).
Worker_handle_response(w, decodes) ==
    CASE w.kind = "PrepareWorker" -> <<>>
      [] w.kind = "ValueWorker_app" ->
            IF decodes THEN <<OkResult>> ELSE <<OtherError>>
      [] OTHER -> <<OkResult>>

\* ------------------------------------------------------------ frame header

\* Version::default.
Version_default == 4

\* Header::from_opcode: default version and flags, stream id 0, no body.
Header_from_opcode(opcode) ==
    [version |-> Version_default, flags |-> 0, stream |-> 0,
     opcode |-> opcode, body_len |-> 0]

\* A set_stream that leaves the stream id of the fresh header in place.
Header_set_stream_unset(h, stream) == h

\* Header::set_stream.
Header_set_stream(h, stream) == [h EXCEPT !.stream = stream]

\* Header::stream.
Header_stream(h) == h.stream

\* The stream id written low byte first.
Header_stream_bytes_le(h) == <<h.stream % 256, (h.stream \div 256) % 256>>

\* Into<[u8; 9]> for Header, bytes 2 and 3: the stream id, big-endian.
Header_stream_bytes(h) == <<(h.stream \div 256) % 256, h.stream % 256>>

\* The stream field read low byte first.
stream_from_le_bytes(bytes) == bytes[2] * 256 + bytes[1]

\* TryFrom<&[u8]> for Header, the stream field: u16::from_be_bytes.
stream_from_be_bytes(bytes) == bytes[1] * 256 + bytes[2]

\* ------------------------------------------------------------ reporter

\* A stream slot: state and the request parked on it (0: none).
FreeSlot == [state |-> "free", waiter |-> 0]

\* A reporter after construction: every id in the free list, every slot free.
Reporter_new ==
    [free |-> [i \in 1..NumStreams |-> i - 1],
     slots |-> [s \in StreamIds |-> FreeSlot],
     closed |-> FALSE]

\* send fails when no stream id can be popped: every slot is occupied, or
\* the free list was failed by the shutdown path.
Reporter_can_send(rep) == rep.free # <<>>

\* The stream id the next send pops from the free list.
Reporter_next_stream(rep) == Head(rep.free)

\* send: pop a free stream id and park the worker on its slot.
Reporter_send(rep, w) ==
    LET id == Reporter_next_stream(rep)
    IN  [rep EXCEPT !.free = Tail(@),
                    !.slots[id] = [state |-> "awaiting-header", waiter |-> w]]

\* The request frame as written to the socket: the header with the popped
\* stream id, encoded.
Reporter_frame(rep, w) ==
    [stream |-> Header_stream_bytes(
                    Header_set_stream(Header_from_opcode("EXECUTE"),
                                      Reporter_next_stream(rep))),
     for |-> w]

\* The slot goes back to the free list.
Reporter_release(rep, id) ==
    [rep EXCEPT !.slots[id] = FreeSlot, !.free = Append(@, id)]

\* The reader has parsed a response header carrying these stream bytes: the
\* slot they name, or -1 when they name no occupied slot (ProtocolViolation,
\* logged and skipped).
Reporter_match(rep, bytes) ==
    LET id == stream_from_be_bytes(bytes)
    IN  IF id \in StreamIds /\ rep.slots[id].state # "free" THEN id ELSE -1

\* The header of the response on slot id is parsed; its body is awaited.
Reporter_header_read(rep, id) ==
    [rep EXCEPT !.slots[id].state = "awaiting-body"]

\* The caller cancelled: the slot is abandoned, kept until its response comes.
Reporter_cancel(rep, id) == [rep EXCEPT !.slots[id].waiter = 0]

\* The deadline scan completes the waiter with Timeout; the slot stays
\* occupied until its response is matched.
Reporter_expire(rep, id) ==
    [rep EXCEPT !.slots[id] = [state |-> "completed", waiter |-> 0]]

\* A shutdown that gives the slots up but leaves the free list usable.
Reporter_close_keeps_free_list(rep) ==
    [rep EXCEPT !.slots = [s \in StreamIds |-> FreeSlot], !.closed = TRUE]

\* Shutdown path: every slot is given up and the free list is failed.
Reporter_close(rep) ==
    [free |-> <<>>, slots |-> [s \in StreamIds |-> FreeSlot], closed |-> TRUE]

\* The error a send returns when it cannot pop a stream id.
Reporter_send_error(rep) == IF rep.closed THEN "Closed" ELSE "Overloaded"

\* The requests parked on the reporter's slots.
Reporter_waiters(rep) == {rep.slots[s].waiter : s \in StreamIds} \ {0}

\* Stage: every reporter is full.
Stage_overloaded(reps) == \A r \in Reporters : ~Reporter_can_send(reps[r])

\* The reporter after r in round-robin order.
Stage_after(r) == (r % NumReporters) + 1

\* The k-th reporter in round-robin order from cursor c (k = 0: c itself).
Stage_nth(c, k) == ((c - 1 + k) % NumReporters) + 1

\* Stage: the first reporter, in round-robin order from the cursor, that can
\* take the frame (there is one unless the stage is overloaded).
Stage_pick(reps, c) ==
    LET k == CHOOSE k \in 0..(NumReporters - 1) :
                /\ Reporter_can_send(reps[Stage_nth(c, k)])
                /\ \A j \in 0..(k - 1) : ~Reporter_can_send(reps[Stage_nth(c, j)])
    IN  Stage_nth(c, k)

NoSlot == [rep |-> 0, stream |-> 0]

\* What a request is given: a response (for: the request the server was
\* answering), or an error.
Outcome(kind, for) == [kind |-> kind, for |-> for]

\* ------------------------------------------------------------ initial state

NewRequest == [state |-> "new", rep |-> 0, stream |-> 0, outcomes |-> <<>>]
NoFrame == [stream |-> <<0, 0>>, for |-> 0]
NoSend == [req |-> 0, rep |-> 0, result |-> "none"]
NoCall ==
    [error |-> NoError, act |-> "none", retries |-> 0, reporter |-> FALSE,
     op |-> "none", seq |-> 0]

InitStage ==
    /\ reporters = [r \in Reporters |-> Reporter_new]
    /\ rr = 1
    /\ wire = [r \in Reporters |-> {}]
    /\ reqs = [w \in StageRequests |-> NewRequest]
    /\ reading = [r \in Reporters |-> NoFrame]
    /\ issued = 0
    /\ lastSend = NoSend

InitWorkerIdle ==
    /\ worker = SelectWorker_new
    /\ configured = [given |-> FALSE, retries |-> 0]
    /\ pc = "idle"
    /\ at = NoSlot
    /\ handle = <<>>
    /\ last = NoCall
    /\ resends = 0

\* ------------------------------------------------------------ worker protocol

\* The worker of the worker specification is request 1 on the reporters.
TheWorker == 1

\* The state after construction: a worker built by new (retries = 0), or a
\* scylla-crate ValueWorker, whose new takes the retry count.
Init ==
    /\ \/ /\ worker \in {SelectWorker_new, ValueWorker_app_new, PrepareWorker_new}
          /\ configured = [given |-> FALSE, retries |-> 0]
       \/ \E n \in 0..MaxRetries :
            /\ worker = ValueWorker_scylla_new(n)
            /\ configured = [given |-> TRUE, retries |-> n]
    /\ pc = "created"
    /\ at = NoSlot
    /\ handle = <<>>
    /\ last = NoCall
    /\ resends = 0
    /\ InitStage
    /\ AuxIdle("")

\* with_retries(n) on a worker that has not been sent yet.
WithRetries ==
    /\ pc = "created"
    /\ ~configured.given
    /\ \E n \in 0..MaxRetries :
        /\ worker' = with_retries(worker, n)
        /\ configured' = [given |-> TRUE, retries |-> n]
    /\ UNCHANGED <<pc, at, handle, last, resends, reporters>>
    /\ UNCHANGED <<stageVars, auxVars>>

\* PrepareWorker::with_handle: the worker becomes a RespondingPrepareWorker.
WithHandle ==
    /\ pc = "created"
    /\ worker.kind = "PrepareWorker"
    /\ worker' = PrepareWorker_with_handle(worker)
    /\ UNCHANGED <<configured, pc, at, handle, last, resends, reporters>>
    /\ UNCHANGED <<stageVars, auxVars>>

\* The router hands the frame to a reporter that can take it; the reporter
\* pops a stream id and parks the worker.
RouteTo(r) ==
    /\ Reporter_can_send(reporters[r])
    /\ at' = [rep |-> r, stream |-> Reporter_next_stream(reporters[r])]
    /\ reporters' = [reporters EXCEPT ![r] = Reporter_send(@, TheWorker)]

\* The first send of the request.
SendRequest ==
    /\ pc = "created"
    /\ \E r \in Reporters : RouteTo(r)
    /\ pc' = "inflight"
    /\ UNCHANGED <<worker, configured, handle, last, resends>>
    /\ UNCHANGED <<stageVars, auxVars>>

\* The reporter state once the frame in flight has been answered: its slot
\* is back in the free list.
Answered == [reporters EXCEPT ![at.rep] = Reporter_release(@, at.stream)]

\* The outcomes of decoding the rows of a result; only ValueWorker
\* (src/app) decodes before it calls its handle.
Decodes(w) == IF w.kind = "ValueWorker_app" THEN BOOLEAN ELSE {TRUE}

\* A result arrives for the request in flight: the reporter releases the
\* slot and calls handle_response.
Respond ==
    /\ pc = "inflight"
    /\ \E decodes \in Decodes(worker) :
        handle' = handle \o Worker_handle_response(worker, decodes)
    /\ reporters' = Answered
    /\ pc' = "done"
    /\ at' = NoSlot
    /\ UNCHANGED <<worker, configured, last, resends>>
    /\ UNCHANGED <<stageVars, auxVars>>

\* The reporter argument a worker's handle_error can be given: an Option in
\* scylla and scylla-rs, a plain reference in src/app.
ReporterArgs(w) == IF w.kind = "ValueWorker_app" THEN {TRUE} ELSE BOOLEAN

\* Whether the statement to prepare again is known locally; it is looked up
\* only on the Unprepared recovery path.
StatementKnown(error, reporter) ==
    IF take_unprepared_id(error) /\ reporter THEN BOOLEAN ELSE {TRUE}

\* An error arrives for the request in flight: the reporter releases the
\* slot and calls handle_error, whose decision is carried out.
Fail ==
    /\ pc = "inflight"
    /\ \E error \in WorkerErrors, reporter \in ReporterArgs(worker) :
      \E known \in StatementKnown(error, reporter) :
        LET rel == Answered
            d == Worker_handle_error(worker, error, reporter,
                                      known /\ Reporter_can_send(rel[at.rep]))
        IN  /\ last' = [error |-> error, act |-> d.act, retries |-> worker.retries,
                        reporter |-> reporter, op |-> "EXECUTE", seq |-> 1 - last.seq]
            /\ worker' = d.worker
            /\ CASE d.act = "retry" ->
                      /\ \E r \in Reporters :
                            /\ Reporter_can_send(rel[r])
                            /\ at' = [rep |-> r, stream |-> Reporter_next_stream(rel[r])]
                            /\ reporters' = [rel EXCEPT ![r] = Reporter_send(@, TheWorker)]
                      /\ pc' = "inflight"
                      /\ resends' = IF resends > MaxRetries THEN resends ELSE resends + 1
                      /\ UNCHANGED handle
                 [] d.act = "reprepare" ->
                      /\ at' = [rep |-> at.rep, stream |-> Reporter_next_stream(rel[at.rep])]
                      /\ reporters' = [rel EXCEPT ![at.rep] = Reporter_send(@, TheWorker)]
                      /\ pc' = "preparing"
                      /\ UNCHANGED <<handle, resends>>
                 [] d.act = "surface" ->
                      /\ handle' = Append(handle, error)
                      /\ reporters' = rel
                      /\ pc' = "done"
                      /\ at' = NoSlot
                      /\ UNCHANGED resends
                 [] OTHER ->
                      /\ reporters' = rel
                      /\ pc' = "done"
                      /\ at' = NoSlot
                      /\ UNCHANGED <<handle, resends>>
    /\ UNCHANGED configured
    /\ UNCHANGED <<stageVars, auxVars>>

\* The Prepared result of the recovery PREPARE arrives: the original EXECUTE
\* is sent again on the same reporter, on a stream id popped for it.
Prepared ==
    /\ pc = "preparing"
    /\ LET rel == Answered
       IN  /\ Reporter_can_send(rel[at.rep])
           /\ at' = [rep |-> at.rep, stream |-> Reporter_next_stream(rel[at.rep])]
           /\ reporters' = [rel EXCEPT ![at.rep] = Reporter_send(@, TheWorker)]
    /\ pc' = "inflight"
    /\ last' = [last EXCEPT !.op = "PREPARE", !.act = "resend"]
    /\ UNCHANGED <<worker, configured, handle, resends>>
    /\ UNCHANGED <<stageVars, auxVars>>

\* The recovery PREPARE is answered with an error: the recovery failed and
\* the Unprepared error goes to the caller.
PrepareFailed ==
    /\ pc = "preparing"
    /\ reporters' = Answered
    /\ handle' = Append(handle, last.error)
    /\ pc' = "done"
    /\ at' = NoSlot
    /\ last' = [last EXCEPT !.op = "PREPARE", !.act = "surface"]
    /\ UNCHANGED <<worker, configured, resends>>
    /\ UNCHANGED <<stageVars, auxVars>>

Next ==
    \/ WithRetries
    \/ WithHandle
    \/ SendRequest
    \/ Respond
    \/ Fail
    \/ Prepared
    \/ PrepareFailed

Spec == Init /\ [][Next]_vars

\* Every frame that is sent is eventually answered, and a worker that has
\* been built is eventually sent.
FairSpec == Init /\ [][Next]_vars /\ WF_vars(Next)

\* ------------------------------------------------------------ worker claims

\* The most recent handle_error call answered the request's own frame.
CalledOnRequest == last.op = "EXECUTE" /\ last.act # "none"

\* The most recent handle_error call ended without a re-send and nothing has
\* happened since.
EndedWithoutResend == CalledOnRequest /\ last.act \in {"surface", "drop"}

\* The handle has received exactly the error of the last call.
ErrorSurfaced == pc = "done" /\ handle = <<last.error>>

\* The retries the worker was created with.
CreatedRetries == configured.retries

\* C1 as stated: each retry decrements the counter by exactly 1, the counter
\* never goes below 0, a worker whose counter is 0 passes every error to its
\* handle without re-sending, and the retry path re-sends at most n times.
C1_ZeroCounterAlwaysSurfaces ==
    worker.kind \in HandleKinds =>
        /\ worker.retries \in 0..MaxRetries
        /\ (CalledOnRequest /\ last.act = "retry" =>
                last.retries > 0 /\ worker.retries = last.retries - 1)
        /\ (CalledOnRequest /\ last.retries = 0 =>
                last.act = "surface" /\ ErrorSurfaced)
        /\ resends <= CreatedRetries

\* C1 amended: as above, except that a worker whose counter is 0 (like any
\* other) answers an Unprepared CQL error that comes with a reporter by
\* starting the reprepare recovery, which leaves the counter unchanged; every
\* other error at counter 0 goes to the handle without a re-send.
C1_RetryMonotone ==
    worker.kind \in HandleKinds =>
        /\ worker.retries \in 0..MaxRetries
        /\ (CalledOnRequest /\ last.act = "retry" =>
                last.retries > 0 /\ worker.retries = last.retries - 1)
        /\ (CalledOnRequest /\ last.retries = 0 =>
                \/ last.act = "surface" /\ ErrorSurfaced
                \/ /\ last.act = "reprepare"
                   /\ take_unprepared_id(last.error)
                   /\ last.reporter
                   /\ worker.retries = 0)
        /\ resends + worker.retries = CreatedRetries
        /\ resends <= CreatedRetries

\* C1 witness: a worker created with the largest retry count has used every
\* retry and the next error went to its handle.
C1_Witness ==
    /\ worker.kind \in HandleKinds
    /\ CreatedRetries = MaxRetries
    /\ resends = MaxRetries
    /\ worker.retries = 0
    /\ last.act = "surface"
    /\ ErrorSurfaced

\* C2 as stated: a CQL error with a non-retryable code goes to the handle at
\* once and the request is not re-sent, whatever the retry counter.
C2_NonRetryableSurfaces ==
    (/\ worker.kind \in HandleKinds
     /\ CalledOnRequest
     /\ last.error.type = "Cql"
     /\ last.error.code \in NonRetryableCodes)
        => last.act = "surface" /\ ErrorSurfaced

\* This step is a handle_error call on the worker (seq flips on each call).
HandleErrorStep == last'.seq # last.seq

C4_EveryRequestCompletes ==
    <>[](pc = "done" /\ (worker.kind \in HandleKinds => Len(handle) = 1))

\* C5 as stated: whenever handle_error returns without re-sending the
\* request, the error has been passed to a caller-visible handle; no worker
\* (PrepareWorker included) returns after logging only.
C5_NoErrorSwallowed ==
    EndedWithoutResend => last.act = "surface" /\ ErrorSurfaced

\* C6 as stated: a worker built with new has retries = 0 and hands its first
\* non-Unprepared error to the caller's handle without a re-send; a worker
\* given retries = 1 has re-sent exactly once when an error is delivered.
C6_NewWorkerSurfacesFirstError ==
    /\ ~configured.given => worker.retries = 0
    /\ (/\ ~configured.given
        /\ CalledOnRequest
        /\ ~take_unprepared_id(last.error))
          => last.act = "surface" /\ ErrorSurfaced /\ resends = 0
    /\ (/\ configured.given
        /\ CreatedRetries = 1
        /\ EndedWithoutResend
        /\ ~take_unprepared_id(last.error))
          => last.act = "surface" /\ ErrorSurfaced /\ resends = 1


\* ------------------------------------------------------------ reporter protocol

\* The connection of the reporter specification.
TheReporter == 1

\* send succeeded on reporter r: the frame, stamped with the popped stream
\* id, goes to the socket and request w is parked on the slot.
Park(r, w) ==
    /\ wire' = [wire EXCEPT ![r] = @ \cup {Reporter_frame(reporters[r], w)}]
    /\ reqs' = [reqs EXCEPT ![w] =
                    [state |-> "parked", rep |-> r,
                     stream |-> Reporter_next_stream(reporters[r]),
                     outcomes |-> <<>>]]
    /\ reporters' = [reporters EXCEPT ![r] = Reporter_send(@, w)]
    /\ lastSend' = [req |-> w, rep |-> r, result |-> "parked"]

\* send returned an error: nothing is registered, nothing is written.
Refuse(w, error) ==
    /\ reqs' = [reqs EXCEPT ![w].state = "done",
                            ![w].outcomes = <<Outcome(error, 0)>>]
    /\ lastSend' = [req |-> w, rep |-> 0, result |-> error]
    /\ UNCHANGED <<reporters, wire>>

\* Reporter send of the next request.
ReporterSend ==
    /\ issued < NumStreams + 1
    /\ LET w == issued + 1
           rep == reporters[TheReporter]
       IN  IF Reporter_can_send(rep)
           THEN Park(TheReporter, w)
           ELSE Refuse(w, Reporter_send_error(rep))
    /\ issued' = issued + 1
    /\ UNCHANGED <<rr, reading>>
    /\ UNCHANGED <<workerVars, auxVars>>

\* Stage send of the next request: round robin over the reporters, Overloaded
\* when all of them are full.
StageSend ==
    /\ issued < NumReporters * NumStreams + 1
    /\ LET w == issued + 1
       IN  IF Stage_overloaded(reporters)
           THEN /\ Refuse(w, "Overloaded")
                /\ UNCHANGED rr
           ELSE LET r == Stage_pick(reporters, rr)
                IN  /\ Park(r, w)
                    /\ rr' = Stage_after(r)
    /\ issued' = issued + 1
    /\ UNCHANGED reading
    /\ UNCHANGED <<workerVars, auxVars>>

\* Reader loop, first half: the header of some pending response is parsed
\* (replies come in any order) and its slot is looked up by stream id.
ReadHeader(r) ==
    /\ reading[r] = NoFrame
    /\ \E f \in wire[r] :
        LET id == Reporter_match(reporters[r], f.stream)
        IN  /\ wire' = [wire EXCEPT ![r] = @ \ {f}]
            /\ IF id = -1
               THEN UNCHANGED <<reading, reporters>>
               ELSE /\ reading' = [reading EXCEPT ![r] = f]
                    /\ reporters' = [reporters EXCEPT ![r] = Reporter_header_read(@, id)]
    /\ UNCHANGED <<rr, reqs, issued, lastSend>>
    /\ UNCHANGED <<workerVars, auxVars>>

\* Reader loop, second half: the body is read, the worker is moved out of the
\* slot, the slot is released and the body delivered (dropped when the slot
\* has no waiter any more).
ReadBody(r) ==
    /\ reading[r] # NoFrame
    /\ LET f == reading[r]
           id == stream_from_be_bytes(f.stream)
           w == reporters[r].slots[id].waiter
       IN  /\ reporters' = [reporters EXCEPT ![r] = Reporter_release(@, id)]
           /\ reqs' = IF w = 0 THEN reqs
                      ELSE [reqs EXCEPT ![w].state = "done",
                                        ![w].outcomes = Append(@, Outcome("Response", f.for))]
    /\ reading' = [reading EXCEPT ![r] = NoFrame]
    /\ UNCHANGED <<rr, wire, issued, lastSend>>
    /\ UNCHANGED <<workerVars, auxVars>>

\* The caller of a parked request cancels.
Cancel(r) ==
    /\ \E w \in Reporter_waiters(reporters[r]) :
        /\ reporters' = [reporters EXCEPT ![r] = Reporter_cancel(@, reqs[w].stream)]
        /\ reqs' = [reqs EXCEPT ![w].state = "done",
                                ![w].outcomes = Append(@, Outcome("Cancelled", 0))]
    /\ UNCHANGED <<rr, wire, reading, issued, lastSend>>
    /\ UNCHANGED <<workerVars, auxVars>>

\* The deadline of a parked request passes and the scan finds it.
Expire(r) ==
    /\ \E w \in Reporter_waiters(reporters[r]) :
        /\ reporters' = [reporters EXCEPT ![r] = Reporter_expire(@, reqs[w].stream)]
        /\ reqs' = [reqs EXCEPT ![w].state = "done",
                                ![w].outcomes = Append(@, Outcome("Timeout", 0))]
    /\ UNCHANGED <<rr, wire, reading, issued, lastSend>>
    /\ UNCHANGED <<workerVars, auxVars>>

\* The connection closes: every parked worker is given ConnectionClosed, the
\* partial frame and the unread replies are lost.
Close(r) ==
    /\ ~reporters[r].closed
    /\ reqs' = [w \in StageRequests |->
                    IF w \in Reporter_waiters(reporters[r])
                    THEN [reqs[w] EXCEPT !.state = "done",
                                         !.outcomes = Append(@, Outcome("ConnectionClosed", 0))]
                    ELSE reqs[w]]
    /\ reporters' = [reporters EXCEPT ![r] = Reporter_close(@)]
    /\ wire' = [wire EXCEPT ![r] = {}]
    /\ reading' = [reading EXCEPT ![r] = NoFrame]
    /\ UNCHANGED <<rr, issued, lastSend>>
    /\ UNCHANGED <<workerVars, auxVars>>

InitReporter == InitWorkerIdle /\ InitStage /\ AuxIdle("")

\* The worker, the reporters and the stage at rest.
InitCore == InitWorkerIdle /\ InitStage

NextReporter ==
    \/ ReporterSend
    \/ ReadHeader(TheReporter)
    \/ ReadBody(TheReporter)
    \/ Cancel(TheReporter)
    \/ Expire(TheReporter)
    \/ Close(TheReporter)

\* One connection: sends, the reader loop, cancellations, deadlines, close.
SpecReporter == InitReporter /\ [][NextReporter]_vars

NextStage ==
    \/ StageSend
    \/ \E r \in Reporters : ReadHeader(r)
    \/ \E r \in Reporters : ReadBody(r)

\* One stage: sends routed round robin to its reporters, and their reader loops.
SpecStage == InitReporter /\ [][NextStage]_vars


\* ------------------------------------------------------------ reporter claims

NoDuplicates(q) == \A i, j \in 1..Len(q) : i # j => q[i] # q[j]

InFreeList(rep, id) == \E i \in 1..Len(rep.free) : rep.free[i] = id

\* Request w is parked on reporter r.
ParkedOn(w, r) == reqs[w].state = "parked" /\ reqs[w].rep = r

\* C7: every assigned stream id lies in the id range of the slot table; an id
\* is never twice in the free list and never both free and occupied; send
\* never assigns an id whose slot is occupied (each parked request is the
\* waiter of its own slot, and its frame carries that id); a released slot is
\* in the free list exactly once.
C7_StreamIdAllocation ==
    \A r \in Reporters :
        LET rep == reporters[r]
        IN  /\ NoDuplicates(rep.free)
            /\ \A i \in 1..Len(rep.free) :
                    rep.free[i] \in StreamIds /\ rep.slots[rep.free[i]] = FreeSlot
            /\ ~rep.closed =>
                    \A id \in StreamIds :
                        rep.slots[id].state = "free" => InFreeList(rep, id)
            /\ \A w \in StageRequests :
                    ParkedOn(w, r) =>
                        /\ reqs[w].stream \in StreamIds
                        /\ rep.slots[reqs[w].stream].waiter = w
            /\ \A f \in wire[r] :
                    /\ stream_from_be_bytes(f.stream) \in StreamIds
                    /\ stream_from_be_bytes(f.stream) = reqs[f.for].stream

\* A stream id other than the first has been released and assigned again.
C7_Witness ==
    \E w1, w2 \in StageRequests :
        /\ w1 # w2
        /\ reqs[w1].outcomes = <<Outcome("Response", w1)>>
        /\ ParkedOn(w2, reqs[w1].rep)
        /\ reqs[w2].stream = reqs[w1].stream
        /\ reqs[w2].stream # 0

\* C8: a request is given at most one outcome, and a response it is given
\* answers the request itself, never one sent by another occupant of its
\* slot, whatever the interleaving of sends, responses, cancellations and
\* deadlines.
C8_ResponseToCurrentOccupant ==
    \A w \in StageRequests :
        /\ Len(reqs[w].outcomes) <= 1
        /\ \A i \in 1..Len(reqs[w].outcomes) :
                reqs[w].outcomes[i].kind = "Response" => reqs[w].outcomes[i].for = w

\* A request got its own response on a slot whose previous occupant had timed
\* out or been cancelled.
C8_Witness ==
    \E w1, w2 \in StageRequests :
        /\ w1 < w2
        /\ reqs[w1].rep # 0
        /\ reqs[w1].rep = reqs[w2].rep
        /\ reqs[w1].stream = reqs[w2].stream
        /\ reqs[w1].outcomes \in {<<Outcome("Timeout", 0)>>, <<Outcome("Cancelled", 0)>>}
        /\ reqs[w2].outcomes = <<Outcome("Response", w2)>>

\* Every slot of every reporter of the stage is occupied.
AllSlotsOccupied ==
    \A r \in Reporters : \A id \in StreamIds : reporters[r].slots[id].state # "free"

\* Every response that was pending has arrived and been dispatched.
AllArrived == \A r \in Reporters : wire[r] = {} /\ reading[r] = NoFrame

\* C9: a send to a stage all of whose slots are occupied returns Overloaded
\* in that very step and changes nothing else; once the pending responses
\* have arrived, every request that was parked has completed with its own
\* response.
C9_StageOverloaded ==
    [][ /\ (issued' # issued /\ AllSlotsOccupied) =>
            /\ reqs'[issued'].state = "done"
            /\ reqs'[issued'].outcomes = <<Outcome("Overloaded", 0)>>
            /\ \A w \in StageRequests \ {issued'} : reqs'[w] = reqs[w]
            /\ UNCHANGED <<reporters, wire, reading, rr>>
        /\ AllArrived' =>
            \A w \in StageRequests :
                reqs'[w].rep # 0 =>
                    /\ reqs'[w].state = "done"
                    /\ reqs'[w].outcomes = <<Outcome("Response", w)>>
      ]_vars

\* The last send found the stage full and was refused; afterwards every
\* parked request completed.
C9_Witness ==
    /\ issued = NumReporters * NumStreams + 1
    /\ reqs[issued].outcomes = <<Outcome("Overloaded", 0)>>
    /\ AllArrived
    /\ \A w \in 1..(issued - 1) : reqs[w].outcomes = <<Outcome("Response", w)>>

\* C10: when a connection closes, each request parked on its reporter is
\* given ConnectionClosed, once, and nothing else changes for the others;
\* afterwards no request is parked on it, a send returns an error without
\* registering or writing anything, and no completed request is touched again.
C10_ConnectionClosed ==
    [][ \A r \in Reporters :
          /\ (~reporters[r].closed /\ reporters'[r].closed) =>
                \A w \in StageRequests :
                    IF ParkedOn(w, r)
                    THEN /\ reqs'[w].state = "done"
                         /\ reqs'[w].outcomes = <<Outcome("ConnectionClosed", 0)>>
                    ELSE reqs'[w] = reqs[w]
          /\ reporters[r].closed =>
                /\ \A w \in StageRequests : ~ParkedOn(w, r)'
                /\ issued' # issued =>
                        /\ reqs'[issued'].state = "done"
                        /\ reqs'[issued'].outcomes = <<Outcome("Closed", 0)>>
                        /\ UNCHANGED <<reporters, wire>>
                /\ \A w \in StageRequests :
                        reqs[w].state = "done" => reqs'[w] = reqs[w]
      ]_vars

\* A connection closed under a parked request, and a later send was refused.
C10_Witness ==
    \E w1, w2 \in StageRequests :
        /\ w1 < w2
        /\ reporters[TheReporter].closed
        /\ reqs[w1].outcomes = <<Outcome("ConnectionClosed", 0)>>
        /\ reqs[w2].outcomes = <<Outcome("Closed", 0)>>

\* ------------------------------------------------------------ prepared ids

\* Statements of the prepared-id specification.
NumStatements == 3
\* Objects constructed in one behaviour of the prepared-id specification.
MaxBuilt == 2

Statements == 1..NumStatements

\* The values of a 16-byte id.
Digests == 0..NumStatements

\* md5::compute over the statement's bytes: a function of the bytes alone.
md5_compute(statement) == NumStatements - statement

\* PrepareWorker::new(keyspace, id, statement): the id is the caller's.
PrepareWorker_new_with_id(id, statement) ==
    [kind |-> "PrepareWorker", id |-> id, retries |-> 0,
     request |-> [statement |-> statement]]

\* From<PrepareRequest> for PrepareWorker: the id is computed.
PrepareWorker_from(request) ==
    [kind |-> "PrepareWorker", id |-> md5_compute(request.statement),
     retries |-> 0, request |-> request]

\* The id() of a statement string: the MD5 of its bytes.
Statement_id(statement) == md5_compute(statement)

\* GetStaticSelectRequest::select_prepared: the EXECUTE builder and the
\* statement string kept in the same SelectBuilder.
select_prepared(statement) ==
    [kind |-> "SelectBuilder", id |-> Statement_id(statement),
     statement |-> statement, token_indexes |-> "static"]

\* AsDynamicSelectRequest::query_prepared.
query_prepared(statement) ==
    [kind |-> "SelectBuilder", id |-> Statement_id(statement),
     statement |-> statement, token_indexes |-> "default"]

InitPrepared == InitCore /\ AuxIdle("prepared") /\ prepared = {}

Construct(object) ==
    /\ Cardinality(prepared) < MaxBuilt
    /\ prepared' = prepared \cup {object}
    /\ UNCHANGED coreVars
    /\ AuxUnchanged("prepared")

NewPrepareWorker ==
    \E id \in Digests, statement \in Statements :
        Construct(PrepareWorker_new_with_id(id, statement))

FromPrepareRequest ==
    \E statement \in Statements :
        Construct(PrepareWorker_from([statement |-> statement]))

SelectPrepared == \E statement \in Statements : Construct(select_prepared(statement))

QueryPrepared == \E statement \in Statements : Construct(query_prepared(statement))

NextPrepared ==
    \/ NewPrepareWorker
    \/ FromPrepareRequest
    \/ SelectPrepared
    \/ QueryPrepared

\* Construction of prepare workers and of prepared select requests.
SpecPrepared == InitPrepared /\ [][NextPrepared]_vars

\* C11: the id of every PrepareWorker is the MD5 of its request's statement,
\* whichever constructor built it, and the prepared id of every EXECUTE
\* builder made by select_prepared / query_prepared is the MD5 of the
\* statement stored with it.
C11_PreparedIdIsMd5 ==
    \A object \in prepared :
        IF object.kind = "PrepareWorker"
        THEN object.id = md5_compute(object.request.statement)
        ELSE object.id = md5_compute(object.statement)

\* ------------------------------------------------------------ header codec

\* Bytes a payload may hold before the header (and where a reader may start).
MaxStart == 1

\* Results of the fallible conversions.
Err == [ok |-> FALSE]
Ok(value) == [ok |-> TRUE, value |-> value]

\* The opcodes by discriminant (index - 1); "" where no opcode is defined.
OpCodeTable ==
    <<"ERROR", "STARTUP", "READY", "AUTHENTICATE", "", "OPTIONS", "SUPPORTED",
      "QUERY", "RESULT", "PREPARE", "EXECUTE", "REGISTER", "EVENT", "BATCH",
      "AUTH_CHALLENGE", "AUTH_RESPONSE", "AUTH_SUCCESS">>

OpCodes == {OpCodeTable[i] : i \in DOMAIN OpCodeTable} \ {""}

\* TryFrom<u8> for OpCode.
OpCode_try_from(byte) ==
    IF (byte + 1) \in DOMAIN OpCodeTable /\ OpCodeTable[byte + 1] # ""
    THEN Ok(OpCodeTable[byte + 1])
    ELSE Err

\* opcode as u8.
OpCode_as_u8(opcode) == (CHOOSE i \in DOMAIN OpCodeTable : OpCodeTable[i] = opcode) - 1

\* u32::from_be_bytes.
u32_from_be_bytes(bytes) ==
    ((bytes[1] * 256 + bytes[2]) * 256 + bytes[3]) * 256 + bytes[4]

\* The four shifts and casts that write a u32 big-endian.
u32_to_be_bytes(n) ==
    <<(n \div 16777216) % 256, (n \div 65536) % 256, (n \div 256) % 256, n % 256>>

\* TryFrom<&[u8]> for Header.
Header_try_from(bytes) ==
    IF Len(bytes) # 9 THEN Err
    ELSE LET opcode == OpCode_try_from(bytes[5])
         IN  IF ~opcode.ok THEN Err
             ELSE Ok([version |-> bytes[1],
                      flags |-> bytes[2],
                      stream |-> stream_from_be_bytes(<<bytes[3], bytes[4]>>),
                      opcode |-> opcode.value,
                      body_len |-> u32_from_be_bytes(SubSeq(bytes, 6, 9))])

\* An encoder that writes the body length as if it were 16 bits wide.
Header_into_short_len(h) ==
    <<h.version, h.flags>> \o Header_stream_bytes(h) \o <<OpCode_as_u8(h.opcode)>>
        \o <<0, 0, (h.body_len \div 256) % 256, h.body_len % 256>>

\* Into<[u8; 9]> for Header.
Header_into(h) ==
    <<h.version, h.flags>> \o Header_stream_bytes(h) \o <<OpCode_as_u8(h.opcode)>>
        \o u32_to_be_bytes(h.body_len)

\* A from_payload that moves the cursor before it converts the bytes.
Header_from_payload_moves_first(start, payload) ==
    IF ~(Len(payload) >= start + 9) THEN [result |-> Err, start |-> start]
    ELSE [result |-> Header_try_from(SubSeq(payload, start + 1, start + 9)),
          start |-> start + 9]

\* FromPayload for Header: the result and the cursor afterwards.
Header_from_payload(start, payload) ==
    IF ~(Len(payload) >= start + 9) THEN [result |-> Err, start |-> start]
    ELSE LET header == Header_try_from(SubSeq(payload, start + 1, start + 9))
         IN  IF header.ok THEN [result |-> header, start |-> start + 9]
             ELSE [result |-> header, start |-> start]

\* Nine-byte arrays the codec is given: both directions, flags set and
\* clear, stream ids and body lengths that use each of their bytes (lengths
\* below 2^31), defined opcodes and bytes that are no opcode (4, 17, 127).
HeaderArrays ==
    {<<v, f>> \o s \o <<o>> \o l :
        v \in {4, 132}, f \in {0, 15},
        s \in {<<0, 0>>, <<0, 1>>, <<1, 0>>, <<127, 255>>, <<255, 255>>},
        o \in {0, 4, 10, 16, 17, 127},
        l \in {<<0, 0, 0, 0>>, <<0, 0, 1, 0>>, <<1, 2, 3, 4>>, <<127, 255, 255, 255>>}}

\* Payloads: an array, whole or cut short by a byte, after some bytes of
\* another frame and before at most one more.
HeaderPayloads ==
    {[i \in 1..before |-> 7] \o SubSeq(a, 1, n) \o [i \in 1..after |-> 9] :
        a \in HeaderArrays, before \in 0..MaxStart, n \in {8, 9}, after \in {0, 1}}

\* Headers the encoder is given.
HeaderValues ==
    [version : {4, 132}, flags : {0, 5},
     stream : {0, 1, 256, 32767, 65535},
     opcode : OpCodes,
     body_len : {0, 1, 65536, 2147483647}]

NoHeaderResult == [ok |-> FALSE, none |-> TRUE]

\* The codec is given a payload and a cursor, or a header.
InitHeader ==
    /\ InitCore
    /\ AuxIdle("hdr")
    /\ \/ \E payload \in HeaderPayloads, start \in 0..(MaxStart + 1) :
            hdr = [stage |-> "bytes", payload |-> payload, start0 |-> start,
                   start |-> start, result |-> NoHeaderResult, bytes |-> <<>>,
                   again |-> NoHeaderResult]
       \/ \E h \in HeaderValues :
            hdr = [stage |-> "header", payload |-> <<>>, start0 |-> 0,
                   start |-> 0, result |-> Ok(h), bytes |-> <<>>,
                   again |-> NoHeaderResult]

\* Header::try_from(&payload[..]).
TryFrom ==
    /\ hdr.stage = "bytes"
    /\ hdr' = [hdr EXCEPT !.stage = "decoded", !.result = Header_try_from(hdr.payload)]
    /\ UNCHANGED coreVars
    /\ AuxUnchanged("hdr")

\* Header::from_payload(&mut start, &payload).
FromPayload ==
    /\ hdr.stage = "bytes"
    /\ LET r == Header_from_payload(hdr.start, hdr.payload)
       IN  hdr' = [hdr EXCEPT !.stage = "read", !.result = r.result, !.start = r.start]
    /\ UNCHANGED coreVars
    /\ AuxUnchanged("hdr")

\* Into::<[u8; 9]>::into(header), of a header given or decoded.
IntoBytes ==
    /\ hdr.stage \in {"header", "decoded"}
    /\ hdr.result.ok
    /\ hdr' = [hdr EXCEPT !.stage = "encoded", !.bytes = Header_into(hdr.result.value)]
    /\ UNCHANGED coreVars
    /\ AuxUnchanged("hdr")

\* Header::try_from of the bytes just encoded.
TryFromEncoded ==
    /\ hdr.stage = "encoded"
    /\ hdr' = [hdr EXCEPT !.stage = "redecoded", !.again = Header_try_from(hdr.bytes)]
    /\ UNCHANGED coreVars
    /\ AuxUnchanged("hdr")

NextHeader ==
    \/ TryFrom
    \/ FromPayload
    \/ IntoBytes
    \/ TryFromEncoded

\* The header codec applied to payloads and headers.
SpecHeader == InitHeader /\ [][NextHeader]_vars

\* The bytes that are a defined opcode (spec.md 2).
DefinedOpcodeBytes == (0..16) \ {4}

\* C12: a 9-byte array with a defined opcode byte decodes, and encoding the
\* decoded header gives the array back; decoding the 9 bytes a header encodes
\* to gives a header with the same version, flags, stream id, opcode and
\* body_len.
C12_HeaderRoundTrip ==
    /\ (hdr.stage = "decoded" /\ Len(hdr.payload) = 9
            /\ hdr.payload[5] \in DefinedOpcodeBytes) => hdr.result.ok
    /\ (hdr.stage \in {"encoded", "redecoded"}) =>
            /\ Len(hdr.bytes) = 9
            /\ \A i \in 1..9 : hdr.bytes[i] \in 0..255
            /\ hdr.payload # <<>> => hdr.bytes = hdr.payload
    /\ hdr.stage = "redecoded" =>
            /\ hdr.again.ok
            /\ hdr.again.value.version = hdr.result.value.version
            /\ hdr.again.value.flags = hdr.result.value.flags
            /\ hdr.again.value.stream = hdr.result.value.stream
            /\ hdr.again.value.opcode = hdr.result.value.opcode
            /\ hdr.again.value.body_len = hdr.result.value.body_len

\* A response header with flags, a two-byte stream id and a four-byte body
\* length went through decode, encode and decode.
C12_Witness ==
    /\ hdr.stage = "redecoded"
    /\ hdr.payload = <<132, 15, 127, 255, 16, 1, 2, 3, 4>>
    /\ hdr.again.value.stream = 32767
    /\ hdr.again.value.body_len = 16909060
    /\ hdr.again.value.opcode = "AUTH_SUCCESS"

\* C14: try_from gives an error and no header exactly when the slice is not
\* 9 bytes long or its opcode byte is no defined opcode; from_payload gives
\* an error exactly when fewer than 9 bytes remain from the cursor or the
\* opcode is unknown, leaves the cursor where it was on every error and moves
\* it by exactly 9 on success.
C14_HeaderDecodeErrors ==
    /\ hdr.stage = "decoded" =>
            /\ hdr.result.ok <=>
                    (Len(hdr.payload) = 9 /\ hdr.payload[5] \in DefinedOpcodeBytes)
            /\ ~hdr.result.ok => hdr.result = Err
    /\ hdr.stage = "read" =>
            LET fits == Len(hdr.payload) - hdr.start0 >= 9
            IN  /\ hdr.result.ok <=>
                        (fits /\ hdr.payload[hdr.start0 + 5] \in DefinedOpcodeBytes)
                /\ hdr.result.ok => hdr.start = hdr.start0 + 9
                /\ ~hdr.result.ok => (hdr.start = hdr.start0 /\ hdr.result = Err)

\* from_payload met an unknown opcode behind a non-zero cursor, with nine
\* bytes at hand, and left the cursor in place.
C14_Witness ==
    /\ hdr.stage = "read"
    /\ ~hdr.result.ok
    /\ hdr.start0 > 0
    /\ Len(hdr.payload) - hdr.start0 >= 9
    /\ hdr.start = hdr.start0

\* ------------------------------------------------------------ frame builder

\* Longest body enumerated byte by byte.
MaxBody == 3

\* i32::to_be_bytes (two's complement).
i32_to_be_bytes(n) ==
    <<(n \div 16777216) % 256, (n \div 65536) % 256, (n \div 256) % 256, n % 256>>

\* Vec::extend.
Vec_extend(v, bytes) == v \o bytes

\* <[u8]>::rotate_right(k): the last k elements move to the front.
rotate_right(v, k) ==
    [i \in 1..Len(v) |-> v[((i - 1 - k) % Len(v)) + 1]]

\* A build that takes the length after the header has been appended.
FrameBuilder_build_late_len(header, body) ==
    LET with_header == Vec_extend(body, header)
        len == Len(with_header)
    IN  rotate_right(Vec_extend(with_header, i32_to_be_bytes(len)), 9)

\* FrameBuilder::build.
FrameBuilder_build(header, body) ==
    LET len == Len(body)
        with_header == Vec_extend(body, header)
        with_len == Vec_extend(with_header, i32_to_be_bytes(len))
    IN  rotate_right(with_len, 9)

\* The first five bytes of a request header: version, flags, stream, opcode.
FrameHeaders ==
    {<<4, 0, 0, 0, 7>>, <<4, 0, 0, 1, 10>>, <<4, 2, 127, 255, 13>>}

\* Bodies: every byte string up to MaxBody over three byte values, and one
\* whose length needs two bytes.
FrameBodies ==
    UNION {[1..n -> {0, 1, 255}] : n \in 0..MaxBody}
        \cup {[i \in 1..258 |-> i % 251]}

InitFrame ==
    /\ InitCore
    /\ AuxIdle("frame")
    /\ \E header \in FrameHeaders, body \in FrameBodies :
        frame = [stage |-> "given", header |-> header, body |-> body, out |-> <<>>]

Build ==
    /\ frame.stage = "given"
    /\ frame' = [frame EXCEPT !.stage = "built",
                              !.out = FrameBuilder_build(frame.header, frame.body)]
    /\ UNCHANGED coreVars
    /\ AuxUnchanged("frame")

NextFrame == Build

\* FrameBuilder::build applied to headers and bodies.
SpecFrame == InitFrame /\ [][NextFrame]_vars

\* C13: a built frame is the 5 header bytes, then the body length as 4
\* bytes big-endian, then the body unchanged; the length encoded in the
\* header is the number of bytes that follow the 9-byte header.
C13_FrameBuilderLayout ==
    frame.stage = "built" =>
        /\ Len(frame.out) = 9 + Len(frame.body)
        /\ SubSeq(frame.out, 1, 5) = frame.header
        /\ \A i \in 6..9 : frame.out[i] \in 0..255
        /\ u32_from_be_bytes(SubSeq(frame.out, 6, 9)) = Len(frame.body)
        /\ SubSeq(frame.out, 10, Len(frame.out)) = frame.body
        /\ u32_from_be_bytes(SubSeq(frame.out, 6, 9)) = Len(frame.out) - 9

\* A frame was built around a body whose length takes two bytes.
C13_Witness ==
    /\ frame.stage = "built"
    /\ Len(frame.body) = 258
    /\ SubSeq(frame.out, 6, 9) = <<0, 0, 1, 2>>

\* ------------------------------------------------------------ rows decoder

\* Rows a well-formed result body declares.
MaxRows == 2

\* i32::from_be_bytes (two's complement).
i32_from_be_bytes(bytes) ==
    LET high == IF bytes[1] >= 128 THEN bytes[1] - 256 ELSE bytes[1]
    IN  ((high * 256 + bytes[2]) * 256 + bytes[3]) * 256 + bytes[4]

\* n as usize, with usize scaled down to 31 bits: a negative count becomes a
\* count larger than any body.
as_usize(n) == IF n >= 0 THEN n ELSE 2147483647 + n + 1

\* buffer[from..][..n]: the slice, or a panic when it runs past the end.
slice(buffer, from, n) ==
    IF from + n <= Len(buffer)
    THEN [panic |-> FALSE, bytes |-> SubSeq(buffer, from + 1, from + n)]
    ELSE [panic |-> TRUE, bytes |-> <<>>]

\* Rows::new for Iter: reads the row count at rows_start.
Iter_new(buffer, rows_start) ==
    LET column_start == rows_start + 4
        count == slice(buffer, rows_start, 4)
    IN  IF count.panic THEN [panic |-> TRUE]
        ELSE [panic |-> FALSE,
              rows_count |-> as_usize(i32_from_be_bytes(count.bytes)),
              remaining_rows_count |-> as_usize(i32_from_be_bytes(count.bytes)),
              column_start |-> column_start]

Iter_column_value_reads_prefix_only(buffer, iter) ==
    [panic |-> FALSE, value |-> <<>>,
     iter |-> [iter EXCEPT !.column_start = iter.column_start + 4]]

\* ColumnValue::column_value for Iter: the column bytes handed to the column
\* decoder and the iterator afterwards.
Iter_column_value(buffer, iter) ==
    LET prefix == slice(buffer, iter.column_start, 4)
        length == i32_from_be_bytes(prefix.bytes)
        value_start == iter.column_start + 4
    IN  IF prefix.panic THEN [panic |-> TRUE]
        ELSE IF length > 0
        THEN LET col_slice == slice(buffer, value_start, length)
             IN  IF col_slice.panic THEN [panic |-> TRUE]
                 ELSE [panic |-> FALSE, value |-> col_slice.bytes,
                       iter |-> [iter EXCEPT !.column_start = value_start + length]]
        ELSE [panic |-> FALSE, value |-> <<>>,
              iter |-> [iter EXCEPT !.column_start = value_start]]

\* Iterator::next for Iter over one-column rows (Row for Option<T>): the row,
\* none at the end.
Iter_next(buffer, iter) ==
    IF iter.remaining_rows_count > 0
    THEN LET counted == [iter EXCEPT !.remaining_rows_count = @ - 1]
             column == Iter_column_value(buffer, counted)
         IN  IF column.panic THEN [panic |-> TRUE]
             ELSE [panic |-> FALSE, some |-> TRUE, row |-> column.value,
                   iter |-> column.iter]
    ELSE [panic |-> FALSE, some |-> FALSE, row |-> <<>>, iter |-> iter]

\* An encoded column: null (length -1), or one or two bytes.
EncodedColumns ==
    {<<255, 255, 255, 255>>, <<0, 0, 0, 1, 42>>, <<0, 0, 0, 2, 42, 43>>}

RECURSIVE EncodedRows(_)
\* The encodings of n one-column rows.
EncodedRows(n) ==
    IF n = 0 THEN {<<>>}
    ELSE {col \o rest : col \in EncodedColumns, rest \in EncodedRows(n - 1)}

\* Well-formed rows bodies: the count, then the rows.
WellFormedBodies ==
    UNION {{<<0, 0, 0, n>> \o encoded : encoded \in EncodedRows(n)} : n \in 0..MaxRows}

\* Result bodies the decoder is given: a well-formed one, one cut short at
\* any byte after the row count, and one that declares a negative row count.
RowsBodies ==
    UNION {{SubSeq(body, 1, n) : n \in 4..Len(body)} : body \in WellFormedBodies}
        \cup {<<255, 255, 255, 255>> \o encoded : encoded \in EncodedRows(1)}

NoIter == [panic |-> FALSE, rows_count |-> 0, remaining_rows_count |-> 0,
           column_start |-> 0]

InitRows ==
    /\ InitCore
    /\ AuxIdle("rows")
    /\ \E buffer \in RowsBodies :
        rows = [stage |-> "body", buffer |-> buffer, iter |-> NoIter, decoded |-> <<>>]

\* Iter::new(decoder).
IterNew ==
    /\ rows.stage = "body"
    /\ LET iter == Iter_new(rows.buffer, 0)
       IN  rows' = IF iter.panic
                   THEN [rows EXCEPT !.stage = "panicked"]
                   ELSE [rows EXCEPT !.stage = "iterating", !.iter = iter]
    /\ UNCHANGED coreVars
    /\ AuxUnchanged("rows")

\* iter.next().
IterNext ==
    /\ rows.stage = "iterating"
    /\ LET next == Iter_next(rows.buffer, rows.iter)
       IN  rows' = IF next.panic THEN [rows EXCEPT !.stage = "panicked"]
                   ELSE IF next.some
                   THEN [rows EXCEPT !.iter = next.iter,
                                     !.decoded = Append(@, next.row)]
                   ELSE [rows EXCEPT !.stage = "end"]
    /\ UNCHANGED coreVars
    /\ AuxUnchanged("rows")

NextRows ==
    \/ IterNew
    \/ IterNext

\* The rows iterator run over result bodies.
SpecRows == InitRows /\ [][NextRows]_vars

\* The body holds every byte its row count and column lengths call for.
RowsBodyComplete(buffer) ==
    \E body \in WellFormedBodies :
        Len(buffer) >= Len(body) /\ SubSeq(buffer, 1, Len(body)) = body

\* C15: the rows decoder never aborts (a body shorter than its row count and
\* column lengths require is reported as an error value), and it comes to the
\* end of the rows only on a body that holds them all.
C15_RowsDecoderReportsShortBody ==
    /\ rows.stage # "panicked"
    /\ rows.stage = "end" => RowsBodyComplete(rows.buffer)

\* ------------------------------------------------------------ select builder

\* Values bound to one statement.
MaxValues == 3

\* The encoded values a frame can hold.
BoundValues == {"k1", "k2"}

\* TokenEncodeChain::default, append and finish: the token is a function of
\* the values appended, in the order they were appended.
TokenEncodeChain_default == <<>>
TokenEncodeChain_append(chain, value) == Append(chain, value)
TokenEncodeChain_finish(chain) == [murmur3_of |-> chain]

RECURSIVE SelectBuilder_token_loop(_, _, _)
\* The for loop of build over the token indexes still to visit.
SelectBuilder_token_loop(values, indexes, token) ==
    IF indexes = <<>> THEN Ok(token)
    ELSE LET idx == Head(indexes)
         IN  IF Len(values) <= idx THEN Err
             ELSE SelectBuilder_token_loop(
                    values, Tail(indexes),
                    TokenEncodeChain_append(token, values[idx + 1]))

RECURSIVE SelectBuilder_token_loop_skips(_, _, _)
\* A loop that passes over an index with no value bound to it.
SelectBuilder_token_loop_skips(values, indexes, token) ==
    IF indexes = <<>> THEN Ok(token)
    ELSE LET idx == Head(indexes)
         IN  IF Len(values) <= idx
             THEN SelectBuilder_token_loop_skips(values, Tail(indexes), token)
             ELSE SelectBuilder_token_loop_skips(
                    values, Tail(indexes),
                    TokenEncodeChain_append(token, values[idx + 1]))

\* A build whose loop skips unbound indexes.
SelectBuilder_build_skips(kind, builder) ==
    LET token == SelectBuilder_token_loop_skips(
                    builder.values, builder.token_indexes, TokenEncodeChain_default)
    IN  Ok([kind |-> kind, frame |-> [values |-> builder.values],
            token |-> TokenEncodeChain_finish(token.value)])

\* SelectBuilder::build (QueryFrameBuilder and ExecuteFrameBuilder alike):
\* the request, or an error and no request.
SelectBuilder_build(kind, builder) ==
    LET token == SelectBuilder_token_loop(
                    builder.values, builder.token_indexes, TokenEncodeChain_default)
    IN  IF ~token.ok THEN Err
        ELSE Ok([kind |-> kind, frame |-> [values |-> builder.values],
                 token |-> TokenEncodeChain_finish(token.value)])

\* Sequences over S of length at most n.
SeqUpTo(S, n) == UNION {[1..k -> S] : k \in 0..n}

\* A builder after its values were bound: at most MaxValues values, and at
\* most two token indexes, in any order, some of them past the last value.
InitSelect ==
    /\ InitCore
    /\ AuxIdle("sel")
    /\ \E values \in SeqUpTo(BoundValues, MaxValues),
          indexes \in SeqUpTo(0..MaxValues, 2) :
        sel = [stage |-> "bound", values |-> values, token_indexes |-> indexes,
               result |-> Err]

BuildQuery ==
    /\ sel.stage = "bound"
    /\ sel' = [sel EXCEPT !.stage = "built",
                          !.result = SelectBuilder_build("QuerySelectRequest", sel)]
    /\ UNCHANGED coreVars
    /\ AuxUnchanged("sel")

BuildExecute ==
    /\ sel.stage = "bound"
    /\ sel' = [sel EXCEPT !.stage = "built",
                          !.result = SelectBuilder_build("ExecuteSelectRequest", sel)]
    /\ UNCHANGED coreVars
    /\ AuxUnchanged("sel")

NextSelect ==
    \/ BuildQuery
    \/ BuildExecute

\* SelectBuilder::build applied to bound builders.
SpecSelect == InitSelect /\ [][NextSelect]_vars

\* C16: build gives an error and no request when some token index is not
\* less than the number of bound values; otherwise the token of the request
\* is computed from the values at the token indexes, in token_indexes order.
C16_SelectBuilderToken ==
    sel.stage = "built" =>
        IF \E i \in 1..Len(sel.token_indexes) : sel.token_indexes[i] >= Len(sel.values)
        THEN sel.result = Err
        ELSE /\ sel.result.ok
             /\ sel.result.value.frame.values = sel.values
             /\ sel.result.value.token =
                    TokenEncodeChain_finish(
                        [i \in 1..Len(sel.token_indexes) |->
                            sel.values[sel.token_indexes[i] + 1]])

\* A request was built whose token takes the second value before the first.
C16_Witness ==
    /\ sel.stage = "built"
    /\ sel.values = <<"k1", "k2", "k1">>
    /\ sel.token_indexes = <<1, 0>>
    /\ sel.result.ok
    /\ sel.result.value.token = [murmur3_of |-> <<"k2", "k1">>]

\* ------------------------------------------------------------ batch collector

\* Statements appended to one batch.
MaxBatch == 2

None == [some |-> FALSE]
Some(value) == [some |-> TRUE, value |-> value]

\* HashMap::new, insert and get.
HashMap_new == [k \in {} |-> 0]
HashMap_insert(map, key, value) ==
    [k \in (DOMAIN map) \cup {key} |-> IF k = key THEN value ELSE map[k]]
HashMap_get(map, key) == IF key \in DOMAIN map THEN Some(map[key]) ELSE None

\* statement.into(): the ModificationStatement kept in the map.
ModificationStatement(statement) == [modification |-> statement]

\* BatchBuilder::statement / id: the builder advances to a new statement,
\* given as text or as prepared id, with no values yet.
BatchBuilder_statement(builder, statement) ==
    Append(builder, [kind |-> "query", statement |-> statement, values |-> 0])
BatchBuilder_id(builder, id) ==
    Append(builder, [kind |-> "prepared", statement |-> id, values |-> 0])

\* bind_values on the builder: bound values are added to the statement the
\* builder has advanced to; binding stops at the first value that fails.
BatchBuilder_bind_values(builder, bound) ==
    [builder EXCEPT ![Len(builder)].values = bound]

\* BatchCollector::new.
BatchCollector_new == [builder |-> <<>>, map |-> HashMap_new]

\* insert / update / delete: the collector afterwards; binds says whether
\* bind_values returned Ok, bound how many values it added before.
BatchCollector_append(collector, statement, binds, bound) ==
    [ok |-> binds,
     collector |->
        [collector EXCEPT
            !.builder = BatchBuilder_bind_values(
                            BatchBuilder_statement(collector.builder, statement),
                            bound)]]

\* A prepared append that forgets the id map.
BatchCollector_append_prepared_no_map(collector, statement, binds, bound) ==
    [ok |-> binds,
     collector |->
        [collector EXCEPT
            !.builder = BatchBuilder_bind_values(
                            BatchBuilder_id(collector.builder, Statement_id(statement)),
                            bound)]]

\* insert_prepared / update_prepared / delete_prepared.
BatchCollector_append_prepared(collector, statement, binds, bound) ==
    LET id == Statement_id(statement)
    IN  [ok |-> binds,
         collector |->
            [collector EXCEPT
                !.map = HashMap_insert(@, id, ModificationStatement(statement)),
                !.builder = BatchBuilder_bind_values(
                                BatchBuilder_id(collector.builder, id), bound)]]

\* BatchCollector::build: the request holds a clone of the map and the
\* payload the builder encodes.
BatchCollector_build(collector) ==
    [map |-> collector.map, payload |-> collector.builder]

\* BatchRequest::get_statement.
BatchRequest_get_statement(request, id) == HashMap_get(request.map, id)

\* Values a statement of the batch takes.
ValuesPerStatement == 2

NoRequest == [map |-> HashMap_new, payload |-> <<"none">>]

InitBatch ==
    /\ InitCore
    /\ AuxIdle("batch")
    /\ batch = [stage |-> "collecting", collector |-> BatchCollector_new,
                calls |-> <<>>, request |-> NoRequest]

\* The outcomes of bind_values: every value bound, or an error after fewer.
BindOutcomes ==
    {[binds |-> TRUE, bound |-> ValuesPerStatement]}
        \cup {[binds |-> FALSE, bound |-> n] : n \in 0..(ValuesPerStatement - 1)}

\* insert, update or delete of a statement given as text.
AppendQuery ==
    /\ batch.stage = "collecting"
    /\ Len(batch.calls) < MaxBatch
    /\ \E statement \in Statements, outcome \in BindOutcomes :
        LET r == BatchCollector_append(batch.collector, statement,
                                       outcome.binds, outcome.bound)
        IN  batch' = [batch EXCEPT
                        !.collector = r.collector,
                        !.calls = Append(@, [prepared |-> FALSE,
                                             statement |-> statement, ok |-> r.ok])]
    /\ UNCHANGED coreVars
    /\ AuxUnchanged("batch")

\* insert_prepared, update_prepared or delete_prepared.
AppendPrepared ==
    /\ batch.stage = "collecting"
    /\ Len(batch.calls) < MaxBatch
    /\ \E statement \in Statements, outcome \in BindOutcomes :
        LET r == BatchCollector_append_prepared(batch.collector, statement,
                                                outcome.binds, outcome.bound)
        IN  batch' = [batch EXCEPT
                        !.collector = r.collector,
                        !.calls = Append(@, [prepared |-> TRUE,
                                             statement |-> statement, ok |-> r.ok])]
    /\ UNCHANGED coreVars
    /\ AuxUnchanged("batch")

\* build().
BuildBatch ==
    /\ batch.stage = "collecting"
    /\ batch' = [batch EXCEPT !.stage = "built",
                              !.request = BatchCollector_build(batch.collector)]
    /\ UNCHANGED coreVars
    /\ AuxUnchanged("batch")

NextBatch ==
    \/ AppendQuery
    \/ AppendPrepared
    \/ BuildBatch

\* A batch collected statement by statement and built.
SpecBatch == InitBatch /\ [][NextBatch]_vars

\* The statements appended with a *_prepared call.
PreparedAppended ==
    {batch.calls[i].statement : i \in {j \in 1..Len(batch.calls) : batch.calls[j].prepared}}

\* C17: when every call on the collector succeeded, the map of the built
\* request has an entry id -> statement for each statement appended
\* prepared, which get_statement returns, and no entry that comes from a
\* statement appended unprepared.
C17_BatchMapHoldsPrepared ==
    (batch.stage = "built" /\ \A i \in 1..Len(batch.calls) : batch.calls[i].ok) =>
        /\ \A statement \in PreparedAppended :
                BatchRequest_get_statement(batch.request, md5_compute(statement))
                    = Some(ModificationStatement(statement))
        /\ \A id \in Digests :
                BatchRequest_get_statement(batch.request, id).some =>
                    \E statement \in PreparedAppended : md5_compute(statement) = id

\* A batch of one prepared and one unprepared statement was built.
C17_Witness ==
    /\ batch.stage = "built"
    /\ Len(batch.calls) = 2
    /\ batch.calls[1] = [prepared |-> TRUE, statement |-> 1, ok |-> TRUE]
    /\ batch.calls[2] = [prepared |-> FALSE, statement |-> 2, ok |-> TRUE]
    /\ BatchRequest_get_statement(batch.request, md5_compute(1)).some
    /\ ~BatchRequest_get_statement(batch.request, md5_compute(2)).some

\* C20: a *_prepared call that returns Err leaves the collector as it was:
\* no id added to the map, no statement left in the builder.
C20_FailedAppendLeavesCollector ==
    [][ (/\ Len(batch'.calls) > Len(batch.calls)
         /\ batch'.calls[Len(batch'.calls)].prepared
         /\ ~batch'.calls[Len(batch'.calls)].ok)
            => batch'.collector = batch.collector ]_vars

\* ---------------------------------------------------------------------
\* Cluster shutdown (scylla/src/cluster/mod.rs).  The cluster supervises
\* nodes, each node its stage, each stage its reporters; the handling of
\* ClusterEvent::Shutdown follows the specified order of cancellation.
\* ---------------------------------------------------------------------

\* Bounds: node addresses, reporters of a stage, callers.
NumNodes == 2
reporter_count == 1
NumCallers == 2

NodeAddrs == 1..NumNodes
Callers == 1..NumCallers

\* The children of the supervision tree below a set of nodes.
Cluster_reporters(nodes) ==
    {[tier |-> "reporter", node |-> n, id |-> k] : n \in nodes, k \in 1..reporter_count}

Cluster_stages(nodes) == {[tier |-> "stage", node |-> n, id |-> 0] : n \in nodes}

Cluster_node_handles(nodes) == {[tier |-> "node", node |-> n, id |-> 0] : n \in nodes}

Cluster_children(nodes) ==
    Cluster_reporters(nodes) \cup Cluster_stages(nodes) \cup Cluster_node_handles(nodes)

NoChild == [tier |-> "none", node |-> 0, id |-> 0]

\* Builder::build: a running service without nodes.
Cluster_build ==
    [stage |-> "running", service |-> "Running", nodes |-> {}, cancelled |-> {},
     log |-> <<>>,
     callers |-> [c \in Callers |-> [state |-> "idle", on |-> NoChild]],
     atShutdown |-> {}, notified |-> FALSE]

Cluster_remaining(cl, tier) ==
    {child \in Cluster_children(cl.nodes) : child.tier = tier} \ cl.cancelled

\* The children that may be cancelled next in any order of the tiers.
Cluster_next_any_tier(cl) ==
    Cluster_children(cl.nodes) \ cl.cancelled

\* The children that may be cancelled next: reporters while one is left,
\* then stages, then nodes.
Cluster_next_to_cancel(cl) ==
    IF Cluster_remaining(cl, "reporter") # {} THEN Cluster_remaining(cl, "reporter")
    ELSE IF Cluster_remaining(cl, "stage") # {} THEN Cluster_remaining(cl, "stage")
    ELSE Cluster_remaining(cl, "node")

\* Cancelling a child, logged by its tier; the callers pending on a
\* cancelled reporter receive Cancelled.
Cluster_cancel(cl, child) ==
    [cl EXCEPT
        !.cancelled = @ \cup {child},
        !.log = Append(@, child.tier),
        !.callers = [c \in Callers |->
            IF cl.callers[c].state = "pending" /\ cl.callers[c].on = child
            THEN [cl.callers[c] EXCEPT !.state = "Cancelled"]
            ELSE cl.callers[c]]]

\* aknowledge_shutdown: the service is Stopped and the supervisor is told.
Cluster_aknowledge_shutdown(cl) ==
    [cl EXCEPT !.stage = "stopped", !.service = "Stopped", !.notified = TRUE]

InitCluster ==
    /\ InitCore
    /\ AuxIdle("cluster")
    /\ cluster = Cluster_build

\* ClusterEvent::AddNode.
AddNode(addr) ==
    /\ cluster.stage = "running"
    /\ addr \notin cluster.nodes
    /\ cluster' = [cluster EXCEPT !.nodes = @ \cup {addr}]
    /\ UNCHANGED coreVars
    /\ AuxUnchanged("cluster")

\* A caller hands a request to a reporter of a node.
Submit(c) ==
    /\ cluster.stage = "running"
    /\ cluster.callers[c].state = "idle"
    /\ \E rep \in Cluster_reporters(cluster.nodes) :
        cluster' = [cluster EXCEPT !.callers[c] = [state |-> "pending", on |-> rep]]
    /\ UNCHANGED coreVars
    /\ AuxUnchanged("cluster")

\* The response of a pending request arrives.
Answer(c) ==
    /\ cluster.stage = "running"
    /\ cluster.callers[c].state = "pending"
    /\ cluster' = [cluster EXCEPT !.callers[c].state = "Response"]
    /\ UNCHANGED coreVars
    /\ AuxUnchanged("cluster")

\* ClusterEvent::Shutdown is received.
Shutdown ==
    /\ cluster.stage = "running"
    /\ cluster' = [cluster EXCEPT
                     !.stage = "shutdown",
                     !.atShutdown = {c \in Callers : cluster.callers[c].state = "pending"}]
    /\ UNCHANGED coreVars
    /\ AuxUnchanged("cluster")

\* The shutdown cancels one more child.
CancelChild ==
    /\ cluster.stage = "shutdown"
    /\ \E child \in Cluster_next_to_cancel(cluster) :
        cluster' = Cluster_cancel(cluster, child)
    /\ UNCHANGED coreVars
    /\ AuxUnchanged("cluster")

\* Every child is cancelled and the shutdown is acknowledged.
AknowledgeShutdown ==
    /\ cluster.stage = "shutdown"
    /\ Cluster_children(cluster.nodes) \subseteq cluster.cancelled
    /\ cluster' = Cluster_aknowledge_shutdown(cluster)
    /\ UNCHANGED coreVars
    /\ AuxUnchanged("cluster")

NextCluster ==
    \/ \E addr \in NodeAddrs : AddNode(addr)
    \/ \E c \in Callers : Submit(c)
    \/ \E c \in Callers : Answer(c)
    \/ Shutdown
    \/ CancelChild
    \/ AknowledgeShutdown

\* A cluster that gains nodes, serves callers and is shut down.
SpecCluster == InitCluster /\ [][NextCluster]_vars

\* The number of children of a tier cancelled before the i-th cancellation.
CancelledBefore(i, tier) ==
    Cardinality({j \in 1..(i - 1) : cluster.log[j] = tier})

MaxList == 2

NameTokens == {"t", "ks", "k", "v"}
NumberTokens == {"1", "2"}
DurationTokens == {"5s"}
OperatorTokens == {"=", ">"}
ArithmeticOpTokens == {"+", "-"}

\* The reserved keywords that the sampled texts use.
ReservedKeywords ==
    {"SELECT", "DISTINCT", "FROM", "WHERE", "AND", "GROUP", "ORDER", "BY", "ASC",
     "DESC", "LIMIT", "ALLOW", "INSERT", "INTO", "VALUES", "IF", "NOT", "USING",
     "UPDATE", "SET", "DELETE", "BEGIN", "UNLOGGED", "BATCH", "APPLY", "TOKEN"}

\* The tokens made of alphanumeric characters only.
AlphanumericTokens ==
    NameTokens \cup NumberTokens \cup DurationTokens \cup ReservedKeywords
        \cup {"EXISTS", "FILTERING", "TTL", "TIMESTAMP", "TIMEOUT", "COUNT", "COUNTER",
              "PER", "PARTITION", "BYPASS", "CACHE", "AS", "CAST", "JSON"}

\* A successful parse: the value and the stream after it.
Parsed(value, rest) == [ok |-> TRUE, value |-> value, rest |-> rest]

\* result?: the rest of the parser on a successful result, or else the
\* error; the result is computed once.
and_then(result, Continue(_)) ==
    CHOOSE out \in {IF r.ok THEN Continue(r) ELSE Err : r \in {result}} : TRUE

\* let x = value: the rest of the parser on a value computed once.
with(value, Continue(_)) ==
    CHOOSE out \in {Continue(x) : x \in {value}} : TRUE

RECURSIVE skip_whitespace(_)
\* StatementStream::skip_whitespace.
skip_whitespace(s) ==
    IF s # <<>> /\ Head(s) = " " THEN skip_whitespace(Tail(s)) ELSE s

\* s.check::<K>() for a keyword or punctuation mark K.
Keyword_check(s, keyword) ==
    LET this == skip_whitespace(s)
    IN  this # <<>> /\ Head(this) = keyword

\* s.parse::<K>() for a keyword or punctuation mark K.
Keyword_parse(s, keyword) ==
    IF Keyword_check(s, keyword)
    THEN Parsed(keyword, Tail(skip_whitespace(s)))
    ELSE Err

RECURSIVE Keywords_parse(_, _)
\* s.parse::<(K1, .., Kn)>(): the keywords one after the other.
Keywords_parse(s, keywords) ==
    IF keywords = <<>> THEN Parsed(<<>>, s)
    ELSE and_then(Keyword_parse(s, Head(keywords)),
                  LAMBDA first : Keywords_parse(first.rest, Tail(keywords)))

\* s.check::<(K1, .., Kn)>(): every keyword is found in its place.
Keywords_check(s, keywords) == Keywords_parse(s, keywords).ok

\* s.parse::<Option<Semicolon>>(): the stream after an optional semicolon.
Semicolon_skip(s) ==
    IF Keyword_check(s, ";") THEN Keyword_parse(s, ";").rest ELSE s

\* Name::parse of an unquoted name: the alphanumeric characters up to the
\* next other character, refused when empty or a reserved keyword.
Name_parse(s) ==
    with(skip_whitespace(s), LAMBDA this :
        IF this = <<>> \/ Head(this) \notin AlphanumericTokens THEN Err
        ELSE IF Head(this) \in ReservedKeywords THEN Err
        ELSE Parsed(Head(this), Tail(this)))

\* Display for Name::Unquoted.
Name_fmt(name) == <<name>>

\* KeyspaceQualifiedName::parse: (Option<(Name, Dot)>, Name).
KeyspaceQualifiedName_parse(s) ==
    with(Name_parse(s), LAMBDA first :
        IF first.ok /\ Keyword_check(first.rest, ".")
        THEN and_then(Name_parse(Keyword_parse(first.rest, ".").rest), LAMBDA name :
                Parsed([keyspace |-> Some(first.value), name |-> name.value], name.rest))
        ELSE IF first.ok
        THEN Parsed([keyspace |-> None, name |-> first.value], first.rest)
        ELSE Err)

\* Display for KeyspaceQualifiedName.
KeyspaceQualifiedName_fmt(table) ==
    IF table.keyspace.some
    THEN Name_fmt(table.keyspace.value) \o <<".">> \o Name_fmt(table.name)
    ELSE Name_fmt(table.name)

\* str::parse::<i32> and Display for i32, on the sampled numbers.
i32_parse(token) == CASE token = "1" -> 1 [] token = "2" -> 2

i32_fmt(n) == CASE n = 1 -> "1" [] n = 2 -> "2"

\* Limit::parse: a bind marker, or else an i32.
Limit_parse(s) ==
    with(skip_whitespace(s), LAMBDA this :
        IF this # <<>> /\ Head(this) = "?"
        THEN Parsed([kind |-> "BindMarker", n |-> 0], Tail(this))
        ELSE IF this # <<>> /\ Head(this) \in NumberTokens
        THEN Parsed([kind |-> "Literal", n |-> i32_parse(Head(this))], Tail(this))
        ELSE Err)

\* Display for Limit.
Limit_fmt(limit) ==
    IF limit.kind = "BindMarker" THEN <<"?">> ELSE <<i32_fmt(limit.n)>>

\* Term::parse on the sampled terms: an integer constant, kept as its
\* text, or the anonymous bind marker.
Term_parse(s) ==
    with(skip_whitespace(s), LAMBDA this :
        IF this # <<>> /\ Head(this) \in NumberTokens \cup {"?"}
        THEN Parsed(Head(this), Tail(this))
        ELSE Err)

Term_fmt(term) == <<term>>

\* Operator::parse, ArithmeticOp::parse and DurationLiteral::parse on the
\* sampled tokens.
Token_parse(s, tokens) ==
    with(skip_whitespace(s), LAMBDA this :
        IF this # <<>> /\ Head(this) \in tokens THEN Parsed(Head(this), Tail(this)) ELSE Err)

Operator_parse(s) == Token_parse(s, OperatorTokens)

ArithmeticOp_parse(s) == Token_parse(s, ArithmeticOpTokens)

DurationLiteral_parse(s) == Token_parse(s, DurationTokens)

\* Relation::parse, the Normal relation (Name, Operator, Term); the
\* relations on TOKEN and on tuples are not among the sampled texts.
Relation_parse(s) ==
    IF Keyword_check(s, "TOKEN") \/ Keyword_check(s, "(") THEN Err
    ELSE and_then(Name_parse(s), LAMBDA column :
         and_then(Operator_parse(column.rest), LAMBDA operator :
         and_then(Term_parse(operator.rest), LAMBDA term :
            Parsed([column |-> column.value, operator |-> operator.value,
                    term |-> term.value], term.rest))))

\* Display for Relation::Normal: "{} {} {}".
Relation_fmt(relation) ==
    Name_fmt(relation.column) \o <<" ", relation.operator, " ">> \o Term_fmt(relation.term)

\* Order::parse: ASC or DESC.
Order_parse(s) ==
    IF Keyword_check(s, "ASC") THEN Parsed("Ascending", Keyword_parse(s, "ASC").rest)
    ELSE IF Keyword_check(s, "DESC") THEN Parsed("Descending", Keyword_parse(s, "DESC").rest)
    ELSE Err

Order_fmt(order) == IF order = "Ascending" THEN <<"ASC">> ELSE <<"DESC">>

\* ColumnOrder::parse: (Name, Order).
ColumnOrder_parse(s) ==
    and_then(Name_parse(s), LAMBDA column :
    and_then(Order_parse(column.rest), LAMBDA order :
        Parsed([column |-> column.value, order |-> order.value], order.rest)))

\* Display for ColumnOrder: "{} {}".
ColumnOrder_fmt(column) == Name_fmt(column.column) \o <<" ">> \o Order_fmt(column.order)

\* UpdateParameter::parse: TTL, TIMESTAMP or TIMEOUT and its value.
UpdateParameter_parse(s) ==
    IF Keyword_check(s, "TTL")
    THEN and_then(Limit_parse(Keyword_parse(s, "TTL").rest), LAMBDA limit :
            Parsed([kind |-> "TTL", limit |-> limit.value, duration |-> ""], limit.rest))
    ELSE IF Keyword_check(s, "TIMESTAMP")
    THEN and_then(Limit_parse(Keyword_parse(s, "TIMESTAMP").rest), LAMBDA limit :
            Parsed([kind |-> "TIMESTAMP", limit |-> limit.value, duration |-> ""],
                   limit.rest))
    ELSE IF Keyword_check(s, "TIMEOUT")
    THEN and_then(DurationLiteral_parse(Keyword_parse(s, "TIMEOUT").rest), LAMBDA duration :
            Parsed([kind |-> "TIMEOUT", limit |-> [kind |-> "BindMarker", n |-> 0],
                    duration |-> duration.value], duration.rest))
    ELSE Err

\* Display for UpdateParameter: "TTL {}", "TIMESTAMP {}", "TIMEOUT {}".
UpdateParameter_fmt(parameter) ==
    IF parameter.kind = "TIMEOUT" THEN <<"TIMEOUT", " ", parameter.duration>>
    ELSE <<parameter.kind, " ">> \o Limit_fmt(parameter.limit)

\* SimpleSelection::parse: a field (Name, Dot, Name), or else a column; the
\* selections by index are not among the sampled texts.
SimpleSelection_parse(s) ==
    and_then(Name_parse(s), LAMBDA column :
        IF Keyword_check(column.rest, ".")
        THEN with(Name_parse(Keyword_parse(column.rest, ".").rest), LAMBDA field :
                IF field.ok
                THEN Parsed([kind |-> "Field", column |-> column.value,
                             field |-> field.value], field.rest)
                ELSE Parsed([kind |-> "Column", column |-> column.value, field |-> ""],
                            column.rest))
        ELSE IF Keyword_check(column.rest, "[") THEN Err
        ELSE Parsed([kind |-> "Column", column |-> column.value, field |-> ""], column.rest))

\* Display for SimpleSelection.
SimpleSelection_fmt(selection) ==
    IF selection.kind = "Field"
    THEN Name_fmt(selection.column) \o <<".">> \o Name_fmt(selection.field)
    ELSE Name_fmt(selection.column)

\* Assignment::parse: an arithmetic assignment when (Name, Equals, Name,
\* ArithmeticOp, Term) is ahead, or else a simple one; appending to a list
\* is not among the sampled texts.
Assignment_parse(s) ==
    with(and_then(Name_parse(s), LAMBDA assignee :
         and_then(Keyword_parse(assignee.rest, "="), LAMBDA equals :
         and_then(Name_parse(equals.rest), LAMBDA lhs :
         and_then(ArithmeticOp_parse(lhs.rest), LAMBDA op :
            Parsed([assignee |-> assignee.value, lhs |-> lhs.value, op |-> op.value],
                   op.rest))))),
         LAMBDA arithmetic :
        IF arithmetic.ok
        THEN and_then(Term_parse(arithmetic.rest), LAMBDA rhs :
                Parsed([kind |-> "Arithmetic", assignee |-> arithmetic.value.assignee,
                        lhs |-> arithmetic.value.lhs, op |-> arithmetic.value.op,
                        rhs |-> rhs.value,
                        selection |-> [kind |-> "Column", column |-> "", field |-> ""]],
                       rhs.rest))
        ELSE and_then(SimpleSelection_parse(s), LAMBDA selection :
             and_then(Keyword_parse(selection.rest, "="), LAMBDA equals :
             and_then(Term_parse(equals.rest), LAMBDA term :
                Parsed([kind |-> "Simple", assignee |-> "", lhs |-> "", op |-> "",
                        rhs |-> term.value, selection |-> selection.value], term.rest)))))

\* Display for Assignment: "{} = {}" and "{} = {} {} {}".
Assignment_fmt(assignment) ==
    IF assignment.kind = "Arithmetic"
    THEN Name_fmt(assignment.assignee) \o <<" ", "=", " ">> \o Name_fmt(assignment.lhs)
            \o <<" ", assignment.op, " ">> \o Term_fmt(assignment.rhs)
    ELSE SimpleSelection_fmt(assignment.selection) \o <<" ", "=", " ">>
            \o Term_fmt(assignment.rhs)

\* Condition::parse: (SimpleSelection, Operator, Term).
Condition_parse(s) ==
    and_then(SimpleSelection_parse(s), LAMBDA lhs :
    and_then(Operator_parse(lhs.rest), LAMBDA op :
    and_then(Term_parse(op.rest), LAMBDA rhs :
        Parsed([lhs |-> lhs.value, op |-> op.value, rhs |-> rhs.value], rhs.rest))))

\* Display for Condition: "{} {} {}".
Condition_fmt(condition) ==
    SimpleSelection_fmt(condition.lhs) \o <<" ", condition.op, " ">> \o Term_fmt(condition.rhs)

\* SelectorKind::parse: COUNT(*), a column or a term; casts and functions
\* are not among the sampled texts.
SelectorKind_parse(s) ==
    IF Keyword_check(s, "CAST") THEN Err
    ELSE IF Keyword_check(s, "COUNT")
    THEN and_then(Keywords_parse(s, <<"COUNT", "(">>), LAMBDA left :
         with(skip_whitespace(left.rest), LAMBDA this :
            IF this # <<>> /\ Keyword_check(Tail(this), ")")
            THEN Parsed([kind |-> "Count", name |-> ""], Keyword_parse(Tail(this), ")").rest)
            ELSE Err))
    ELSE with(Name_parse(s), LAMBDA name :
            IF name.ok /\ Keyword_check(name.rest, "(") THEN Err
            ELSE IF name.ok THEN Parsed([kind |-> "Column", name |-> name.value], name.rest)
            ELSE and_then(Term_parse(s), LAMBDA term :
                    Parsed([kind |-> "Term", name |-> term.value], term.rest)))

\* Selector::parse: (SelectorKind, Option<(AS, Name)>).
Selector_parse(s) ==
    and_then(SelectorKind_parse(s), LAMBDA kind :
        IF Keyword_check(kind.rest, "AS")
        THEN with(Name_parse(Keyword_parse(kind.rest, "AS").rest), LAMBDA id :
                IF id.ok
                THEN Parsed([kind |-> kind.value, as_id |-> Some(id.value)], id.rest)
                ELSE Parsed([kind |-> kind.value, as_id |-> None], kind.rest))
        ELSE Parsed([kind |-> kind.value, as_id |-> None], kind.rest))

\* Display for SelectorKind and Selector.
Selector_fmt(selector) ==
    (IF selector.kind.kind = "Count" THEN <<"COUNT", "(", "*", ")">>
     ELSE <<selector.kind.name>>)
        \o (IF selector.as_id.some THEN <<" ", "AS", " ">> \o Name_fmt(selector.as_id.value)
            ELSE <<>>)

\* T::parse for the element types of the lists.
Element_parse(kind, s) ==
    CASE kind = "Name" -> Name_parse(s)
      [] kind = "Relation" -> Relation_parse(s)
      [] kind = "ColumnOrder" -> ColumnOrder_parse(s)
      [] kind = "UpdateParameter" -> UpdateParameter_parse(s)
      [] kind = "SimpleSelection" -> SimpleSelection_parse(s)
      [] kind = "Assignment" -> Assignment_parse(s)
      [] kind = "Condition" -> Condition_parse(s)
      [] kind = "Selector" -> Selector_parse(s)
      [] kind = "Term" -> Term_parse(s)

\* Display for the element types.
Element_fmt(kind, element) ==
    CASE kind = "Name" -> Name_fmt(element)
      [] kind = "Relation" -> Relation_fmt(element)
      [] kind = "ColumnOrder" -> ColumnOrder_fmt(element)
      [] kind = "UpdateParameter" -> UpdateParameter_fmt(element)
      [] kind = "SimpleSelection" -> SimpleSelection_fmt(element)
      [] kind = "Assignment" -> Assignment_fmt(element)
      [] kind = "Condition" -> Condition_fmt(element)
      [] kind = "Selector" -> Selector_fmt(element)
      [] kind = "Term" -> Term_fmt(element)

RECURSIVE List_more(_, _, _, _)
\* The loop of List<T, Delim>::parse: one more element after each
\* delimiter.
List_more(kind, delim, res, s) ==
    IF Keyword_check(s, delim)
    THEN and_then(Element_parse(kind, Keyword_parse(s, delim).rest), LAMBDA element :
            List_more(kind, delim, Append(res, element.value), element.rest))
    ELSE Parsed(res, s)

\* List<T, Delim>::parse.
List_parse(kind, delim, s) ==
    and_then(Element_parse(kind, s), LAMBDA first :
        List_more(kind, delim, <<first.value>>, first.rest))

RECURSIVE join(_, _, _)
\* iter().map(|e| e.to_string()).collect::<Vec<_>>().join(separator).
join(kind, elements, separator) ==
    IF elements = <<>> THEN <<>>
    ELSE IF Len(elements) = 1 THEN Element_fmt(kind, Head(elements))
    ELSE Element_fmt(kind, Head(elements)) \o separator
            \o join(kind, Tail(elements), separator)

\* Parens<T>::parse for a list: LeftParen, the list, RightParen.
Parens_parse(kind, delim, s) ==
    and_then(Keyword_parse(s, "("), LAMBDA left :
    and_then(List_parse(kind, delim, left.rest), LAMBDA res :
    and_then(Keyword_parse(res.rest, ")"), LAMBDA right :
        Parsed(res.value, right.rest))))

\* Option<(USING, List<UpdateParameter, AND>)>::parse: the parameters when
\* USING and a list of them are ahead.
Using_parse(s) ==
    with(and_then(Keyword_parse(s, "USING"), LAMBDA using :
            List_parse("UpdateParameter", "AND", using.rest)),
         LAMBDA list :
        IF list.ok THEN Parsed(Some(list.value), list.rest) ELSE Parsed(None, s))

\* SelectClauseKind::parse: a star, or else List<Selector, Comma>.
SelectClauseKind_parse(s) ==
    IF Keyword_check(s, "*")
    THEN Parsed([all |-> TRUE, selectors |-> <<>>], Keyword_parse(s, "*").rest)
    ELSE and_then(List_parse("Selector", ",", s), LAMBDA selectors :
            Parsed([all |-> FALSE, selectors |-> selectors.value], selectors.rest))

\* Display for SelectClauseKind.
SelectClauseKind_fmt(clause) ==
    IF clause.all THEN <<"*">> ELSE join("Selector", clause.selectors, <<",", " ">>)

\* FromClause::parse: (FROM, KeyspaceQualifiedName).
FromClause_parse(s) ==
    and_then(Keyword_parse(s, "FROM"), LAMBDA from : KeyspaceQualifiedName_parse(from.rest))

\* Display for FromClause: "FROM {}".
FromClause_fmt(table) == <<"FROM", " ">> \o KeyspaceQualifiedName_fmt(table)

\* WhereClause::parse: (WHERE, List<Relation, AND>).
WhereClause_parse(s) ==
    and_then(Keyword_parse(s, "WHERE"), LAMBDA where :
        List_parse("Relation", "AND", where.rest))

\* Display for WhereClause: "WHERE {}" with the relations joined by " AND ".
WhereClause_fmt(relations) ==
    <<"WHERE", " ">> \o join("Relation", relations, <<" ", "AND", " ">>)

\* GroupByClause::parse: (GROUP, BY, List<Name, Comma>).
GroupByClause_parse(s) ==
    and_then(Keywords_parse(s, <<"GROUP", "BY">>), LAMBDA group :
        List_parse("Name", ",", group.rest))

\* Display for GroupByClause.
GroupByClause_fmt(columns) ==
    <<"GROUP", " ", "BY", " ">> \o join("Name", columns, <<",", " ">>)

\* OrderingClause::parse: (GROUP, BY, List<ColumnOrder, Comma>), behind a
\* peek for (ORDER, BY).
OrderingClause_parse(s) ==
    and_then(Keywords_parse(s, <<"GROUP", "BY">>), LAMBDA group :
        List_parse("ColumnOrder", ",", group.rest))

\* Display for OrderingClause.
OrderingClause_fmt(columns) ==
    <<"ORDER", " ", "BY", " ">> \o join("ColumnOrder", columns, <<",", " ">>)

\* IfClause::parse: IF, then EXISTS or List<Condition, AND>.
IfClause_parse(s) ==
    and_then(Keyword_parse(s, "IF"), LAMBDA if :
        IF Keyword_check(if.rest, "EXISTS")
        THEN Parsed([exists |-> TRUE, conditions |-> <<>>],
                    Keyword_parse(if.rest, "EXISTS").rest)
        ELSE and_then(List_parse("Condition", "AND", if.rest), LAMBDA conditions :
                Parsed([exists |-> FALSE, conditions |-> conditions.value],
                       conditions.rest)))

\* Display for IfClause.
IfClause_fmt(clause) ==
    IF clause.exists THEN <<"IF", " ", "EXISTS">>
    ELSE <<"IF", " ">> \o join("Condition", clause.conditions, <<" ", "AND", " ">>)

\* Option<IfClause>::parse: the clause when IF is ahead.
IfClause_parse_option(s) ==
    IF Keyword_check(s, "IF")
    THEN and_then(IfClause_parse(s), LAMBDA clause : Parsed(Some(clause.value), clause.rest))
    ELSE Parsed(None, s)

\* SelectStatementBuilder::default.
SelectStatementBuilder_default ==
    [where_clause |-> None, group_by_clause |-> None, order_by_clause |-> None,
     per_partition_limit |-> None, limit |-> None, allow_filtering |-> None,
     bypass_cache |-> None, timeout |-> None]

RECURSIVE SelectStatement_clauses(_, _)
\* The loop of SelectStatement::parse over the optional clauses, each
\* accepted once.
SelectStatement_clauses(res, s) ==
    IF Keyword_check(s, "WHERE")
    THEN and_then(WhereClause_parse(s), LAMBDA clause :
            IF res.where_clause.some THEN Err
            ELSE SelectStatement_clauses([res EXCEPT !.where_clause = Some(clause.value)],
                                         clause.rest))
    ELSE IF Keywords_check(s, <<"GROUP", "BY">>)
    THEN and_then(GroupByClause_parse(s), LAMBDA clause :
            IF res.group_by_clause.some THEN Err
            ELSE SelectStatement_clauses([res EXCEPT !.group_by_clause = Some(clause.value)],
                                         clause.rest))
    ELSE IF Keywords_check(s, <<"ORDER", "BY">>)
    THEN and_then(OrderingClause_parse(s), LAMBDA clause :
            IF res.order_by_clause.some THEN Err
            ELSE SelectStatement_clauses([res EXCEPT !.order_by_clause = Some(clause.value)],
                                         clause.rest))
    ELSE IF Keywords_check(s, <<"PER", "PARTITION", "LIMIT">>)
    THEN and_then(Limit_parse(Keywords_parse(s, <<"PER", "PARTITION", "LIMIT">>).rest),
                  LAMBDA limit :
            IF res.per_partition_limit.some THEN Err
            ELSE SelectStatement_clauses(
                    [res EXCEPT !.per_partition_limit = Some(limit.value)], limit.rest))
    ELSE IF Keyword_check(s, "LIMIT")
    THEN and_then(Limit_parse(Keyword_parse(s, "LIMIT").rest), LAMBDA limit :
            IF res.limit.some THEN Err
            ELSE SelectStatement_clauses([res EXCEPT !.limit = Some(limit.value)],
                                         limit.rest))
    ELSE IF Keywords_check(s, <<"ALLOW", "FILTERING">>)
    THEN IF res.allow_filtering.some THEN Err
         ELSE SelectStatement_clauses([res EXCEPT !.allow_filtering = Some(TRUE)],
                                      Keywords_parse(s, <<"ALLOW", "FILTERING">>).rest)
    ELSE IF Keywords_check(s, <<"BYPASS", "CACHE">>)
    THEN IF res.bypass_cache.some THEN Err
         ELSE SelectStatement_clauses([res EXCEPT !.bypass_cache = Some(TRUE)],
                                      Keywords_parse(s, <<"BYPASS", "CACHE">>).rest)
    ELSE IF Keywords_check(s, <<"USING", "TIMEOUT">>)
    THEN and_then(DurationLiteral_parse(Keywords_parse(s, <<"USING", "TIMEOUT">>).rest),
                  LAMBDA timeout :
            IF res.timeout.some THEN Err
            ELSE SelectStatement_clauses([res EXCEPT !.timeout = Some(timeout.value)],
                                         timeout.rest))
    ELSE Parsed(res, s)

\* SelectStatement::parse.
SelectStatement_parse(s) ==
    and_then(Keyword_parse(s, "SELECT"), LAMBDA select :
    with(Keyword_check(select.rest, "DISTINCT"), LAMBDA distinct :
    and_then(SelectClauseKind_parse(IF distinct
                                    THEN Keyword_parse(select.rest, "DISTINCT").rest
                                    ELSE select.rest),
             LAMBDA select_clause :
    and_then(FromClause_parse(select_clause.rest), LAMBDA from :
    and_then(SelectStatement_clauses(SelectStatementBuilder_default, from.rest), LAMBDA res :
        Parsed([kind |-> "Select", distinct |-> distinct,
                select_clause |-> select_clause.value, from |-> from.value,
                where_clause |-> res.value.where_clause,
                group_by_clause |-> res.value.group_by_clause,
                order_by_clause |-> res.value.order_by_clause,
                per_partition_limit |-> res.value.per_partition_limit,
                limit |-> res.value.limit,
                allow_filtering |-> res.value.allow_filtering.some,
                bypass_cache |-> res.value.bypass_cache.some,
                timeout |-> res.value.timeout],
               Semicolon_skip(res.rest)))))))

\* Display for SelectStatement.
SelectStatement_fmt(statement) ==
    <<"SELECT", " ">> \o (IF statement.distinct THEN <<"DISTINCT", " ">> ELSE <<>>)
        \o SelectClauseKind_fmt(statement.select_clause) \o <<" ">>
        \o FromClause_fmt(statement.from)
        \o (IF statement.where_clause.some
            THEN <<" ">> \o WhereClause_fmt(statement.where_clause.value) ELSE <<>>)
        \o (IF statement.group_by_clause.some
            THEN <<" ">> \o GroupByClause_fmt(statement.group_by_clause.value) ELSE <<>>)
        \o (IF statement.order_by_clause.some
            THEN <<" ">> \o OrderingClause_fmt(statement.order_by_clause.value) ELSE <<>>)
        \o (IF statement.per_partition_limit.some
            THEN <<" ", "PER", " ", "PARTITION", " ", "LIMIT", " ">>
                    \o Limit_fmt(statement.per_partition_limit.value)
            ELSE <<>>)
        \o (IF statement.limit.some
            THEN <<" ", "LIMIT", " ">> \o Limit_fmt(statement.limit.value) ELSE <<>>)
        \o (IF statement.allow_filtering THEN <<" ", "ALLOW", " ", "FILTERING">> ELSE <<>>)
        \o (IF statement.bypass_cache THEN <<" ", "BYPASS", " ", "CACHE">> ELSE <<>>)
        \o (IF statement.timeout.some
            THEN <<" ", "USING", " ", "TIMEOUT", " ", statement.timeout.value>> ELSE <<>>)

\* InsertKind::parse, the names and values
\* (Parens<List<Name, Comma>>, VALUES, TupleLiteral); JSON is not among the
\* sampled texts.
InsertKind_parse(s) ==
    IF Keyword_check(s, "JSON") THEN Err
    ELSE and_then(Parens_parse("Name", ",", s), LAMBDA names :
         and_then(Keyword_parse(names.rest, "VALUES"), LAMBDA values :
         and_then(Parens_parse("Term", ",", values.rest), LAMBDA tuple :
            Parsed([names |-> names.value, values |-> tuple.value], tuple.rest))))

\* Display for InsertKind::NameValue: "({}) VALUES {}".
InsertKind_fmt(kind) ==
    <<"(">> \o join("Name", kind.names, <<",", " ">>) \o <<")", " ", "VALUES", " ", "(">>
        \o join("Term", kind.values, <<",", " ">>) \o <<")">>

RECURSIVE InsertStatement_clauses(_, _)
\* The loop of InsertStatement::parse over IF NOT EXISTS and USING.
InsertStatement_clauses(res, s) ==
    IF Keywords_check(s, <<"IF", "NOT", "EXISTS">>)
    THEN IF res.if_not_exists.some THEN Err
         ELSE InsertStatement_clauses([res EXCEPT !.if_not_exists = Some(TRUE)],
                                      Keywords_parse(s, <<"IF", "NOT", "EXISTS">>).rest)
    ELSE IF Keyword_check(s, "USING")
    THEN and_then(List_parse("UpdateParameter", "AND", Keyword_parse(s, "USING").rest),
                  LAMBDA using :
            IF res.using.some THEN Err
            ELSE InsertStatement_clauses([res EXCEPT !.using = Some(using.value)],
                                         using.rest))
    ELSE Parsed(res, s)

\* InsertStatement::parse.
InsertStatement_parse(s) ==
    and_then(Keywords_parse(s, <<"INSERT", "INTO">>), LAMBDA insert :
    and_then(KeyspaceQualifiedName_parse(insert.rest), LAMBDA table :
    and_then(InsertKind_parse(table.rest), LAMBDA kind :
    and_then(InsertStatement_clauses([if_not_exists |-> None, using |-> None], kind.rest),
             LAMBDA res :
        Parsed([kind |-> "Insert", table |-> table.value, insert |-> kind.value,
                if_not_exists |-> res.value.if_not_exists.some, using |-> res.value.using],
               Semicolon_skip(res.rest))))))

\* Display for InsertStatement.
InsertStatement_fmt(statement) ==
    <<"INSERT", " ", "INTO", " ">> \o KeyspaceQualifiedName_fmt(statement.table) \o <<" ">>
        \o InsertKind_fmt(statement.insert)
        \o (IF statement.if_not_exists THEN <<" ", "IF", " ", "NOT", " ", "EXISTS">> ELSE <<>>)
        \o (IF statement.using.some
            THEN <<" ", "USING", " ">>
                    \o join("UpdateParameter", statement.using.value, <<" ", "AND", " ">>)
            ELSE <<>>)

\* UpdateStatement::parse.
UpdateStatement_parse(s) ==
    and_then(Keyword_parse(s, "UPDATE"), LAMBDA update :
    and_then(KeyspaceQualifiedName_parse(update.rest), LAMBDA table :
    and_then(Using_parse(table.rest), LAMBDA using :
    and_then(Keyword_parse(using.rest, "SET"), LAMBDA set :
    and_then(List_parse("Assignment", ",", set.rest), LAMBDA set_clause :
    and_then(WhereClause_parse(set_clause.rest), LAMBDA where_clause :
    and_then(IfClause_parse_option(where_clause.rest), LAMBDA if_clause :
        Parsed([kind |-> "Update", table |-> table.value, using |-> using.value,
                set_clause |-> set_clause.value, where_clause |-> where_clause.value,
                if_clause |-> if_clause.value],
               Semicolon_skip(if_clause.rest)))))))))

\* Display for UpdateStatement.
UpdateStatement_fmt(statement) ==
    <<"UPDATE", " ">> \o KeyspaceQualifiedName_fmt(statement.table)
        \o (IF statement.using.some
            THEN <<" ", "USING", " ">>
                    \o join("UpdateParameter", statement.using.value, <<" ", "AND", " ">>)
            ELSE <<>>)
        \o <<" ", "SET", " ">> \o join("Assignment", statement.set_clause, <<",", " ">>)
        \o <<" ">> \o WhereClause_fmt(statement.where_clause)
        \o (IF statement.if_clause.some
            THEN <<" ">> \o IfClause_fmt(statement.if_clause.value) ELSE <<>>)

\* DeleteStatement::parse.
DeleteStatement_parse(s) ==
    and_then(Keyword_parse(s, "DELETE"), LAMBDA delete :
    with(List_parse("SimpleSelection", ",", delete.rest), LAMBDA list :
    and_then(FromClause_parse(IF list.ok THEN list.rest ELSE delete.rest), LAMBDA from :
    and_then(Using_parse(from.rest), LAMBDA using :
    and_then(WhereClause_parse(using.rest), LAMBDA where_clause :
    and_then(IfClause_parse_option(where_clause.rest), LAMBDA if_clause :
        Parsed([kind |-> "Delete",
                selections |-> IF list.ok THEN Some(list.value) ELSE None,
                from |-> from.value, using |-> using.value,
                where_clause |-> where_clause.value, if_clause |-> if_clause.value],
               Semicolon_skip(if_clause.rest))))))))

\* Display for DeleteStatement; the parameters are joined by ", ".
DeleteStatement_fmt(statement) ==
    <<"DELETE">>
        \o (IF statement.selections.some
            THEN <<" ">> \o join("SimpleSelection", statement.selections.value, <<",", " ">>)
            ELSE <<>>)
        \o <<" ">> \o FromClause_fmt(statement.from)
        \o (IF statement.using.some
            THEN <<" ", "USING", " ">>
                    \o join("UpdateParameter", statement.using.value, <<",", " ">>)
            ELSE <<>>)
        \o <<" ">> \o WhereClause_fmt(statement.where_clause)
        \o (IF statement.if_clause.some
            THEN <<" ">> \o IfClause_fmt(statement.if_clause.value) ELSE <<>>)

\* ModificationStatement::parse: the statement of the reserved keyword
\* found ahead.
ModificationStatement_parse(s) ==
    IF Keyword_check(s, "INSERT") THEN InsertStatement_parse(s)
    ELSE IF Keyword_check(s, "UPDATE") THEN UpdateStatement_parse(s)
    ELSE IF Keyword_check(s, "DELETE") THEN DeleteStatement_parse(s)
    ELSE Err

\* Display for ModificationStatement.
ModificationStatement_fmt(statement) ==
    CASE statement.kind = "Insert" -> InsertStatement_fmt(statement)
      [] statement.kind = "Update" -> UpdateStatement_fmt(statement)
      [] statement.kind = "Delete" -> DeleteStatement_fmt(statement)

\* BatchKind::parse: UNLOGGED, COUNTER, or else logged.
BatchKind_parse(s) ==
    IF Keyword_check(s, "UNLOGGED") THEN Parsed("Unlogged", Keyword_parse(s, "UNLOGGED").rest)
    ELSE IF Keyword_check(s, "COUNTER")
    THEN Parsed("Counter", Keyword_parse(s, "COUNTER").rest)
    ELSE Parsed("Logged", s)

RECURSIVE BatchStatement_statements(_, _)
\* The loop of BatchStatement::parse: a statement while the keyword of one
\* is ahead.
BatchStatement_statements(statements, s) ==
    IF Keyword_check(s, "INSERT") \/ Keyword_check(s, "UPDATE") \/ Keyword_check(s, "DELETE")
    THEN and_then(ModificationStatement_parse(s), LAMBDA res :
            BatchStatement_statements(Append(statements, res.value), res.rest))
    ELSE Parsed(statements, s)

\* BatchStatement::parse.
BatchStatement_parse(s) ==
    and_then(Keyword_parse(s, "BEGIN"), LAMBDA begin :
    and_then(BatchKind_parse(begin.rest), LAMBDA kind :
    and_then(Keyword_parse(kind.rest, "BATCH"), LAMBDA keyword :
    and_then(Using_parse(keyword.rest), LAMBDA using :
    and_then(BatchStatement_statements(<<>>, using.rest), LAMBDA statements :
    and_then(Keywords_parse(statements.rest, <<"APPLY", "BATCH">>), LAMBDA apply :
        Parsed([kind |-> "Batch", batch |-> kind.value, using |-> using.value,
                statements |-> statements.value],
               Semicolon_skip(apply.rest))))))))

RECURSIVE join_statements(_)
\* The statements of a batch joined by "; ".
join_statements(statements) ==
    IF statements = <<>> THEN <<>>
    ELSE IF Len(statements) = 1 THEN ModificationStatement_fmt(Head(statements))
    ELSE ModificationStatement_fmt(Head(statements)) \o <<";", " ">>
            \o join_statements(Tail(statements))

\* Display for BatchStatement; the parameters are joined by ", ".
BatchStatement_fmt(statement) ==
    <<"BEGIN">>
        \o (CASE statement.batch = "Logged" -> <<>>
              [] statement.batch = "Unlogged" -> <<" ", "UNLOGGED">>
              [] statement.batch = "Counter" -> <<" ", "COUNTER">>)
        \o <<" ", "BATCH">>
        \o (IF statement.using.some
            THEN <<" ", "USING", " ">>
                    \o join("UpdateParameter", statement.using.value, <<",", " ">>)
            ELSE <<>>)
        \o <<" ">> \o join_statements(statement.statements)
        \o <<" ", "APPLY", " ", "BATCH">>

RECURSIVE Lists(_, _, _)
\* The texts of one to n items, joined by a separator.
Lists(items, separator, n) ==
    IF n <= 1 THEN items
    ELSE Lists(items, separator, n - 1)
            \cup {list \o separator \o item : list \in Lists(items, separator, n - 1),
                                             item \in items}

\* Nothing, or a clause after a blank.
Optional(clauses) == {<<>>} \cup {<<" ">> \o clause : clause \in clauses}

TableTexts == {<<"t">>, <<"ks", ".", "t">>}

RelationTexts == {<<"k", " ", "=", " ", "1">>, <<"v", " ", ">", " ", "?">>}

WhereTexts ==
    {<<"WHERE", " ">> \o relations :
        relations \in Lists(RelationTexts, <<" ", "AND", " ">>, MaxList)}

ParameterTexts ==
    {<<"TTL", " ", "1">>, <<"TIMESTAMP", " ", "2">>, <<"TIMEOUT", " ", "5s">>}

UsingTexts ==
    {<<"USING", " ">> \o parameters :
        parameters \in Lists(ParameterTexts, <<" ", "AND", " ">>, MaxList)}

IfTexts == {<<"IF", " ", "EXISTS">>, <<"IF", " ", "v", " ", "=", " ", "1">>}

\* SELECT statements in canonical form.
SelectTexts ==
    {<<"SELECT", " ">> \o distinct \o selectors \o <<" ", "FROM", " ">> \o table
            \o where \o group \o order \o limit \o filtering :
        distinct \in {<<>>, <<"DISTINCT", " ">>},
        selectors \in {<<"*">>, <<"k", ",", " ", "v">>, <<"COUNT", "(", "*", ")">>},
        table \in TableTexts,
        where \in Optional(WhereTexts),
        group \in Optional({<<"GROUP", " ", "BY", " ", "k">>}),
        order \in Optional({<<"ORDER", " ", "BY", " ", "k", " ", "ASC">>,
                            <<"ORDER", " ", "BY", " ", "v", " ", "DESC">>}),
        limit \in Optional({<<"LIMIT", " ", "1">>}),
        filtering \in Optional({<<"ALLOW", " ", "FILTERING">>})}

\* INSERT statements in canonical form.
InsertTexts ==
    {<<"INSERT", " ", "INTO", " ">> \o table
            \o <<" ", "(", "k", ",", " ", "v", ")", " ", "VALUES", " ",
                 "(", "1", ",", " ", "?", ")">>
            \o exists \o using :
        table \in TableTexts,
        exists \in Optional({<<"IF", " ", "NOT", " ", "EXISTS">>}),
        using \in Optional(UsingTexts)}

AssignmentTexts ==
    {<<"v", " ", "=", " ", "1">>, <<"v", " ", "=", " ", "v", " ", "+", " ", "1">>}

\* UPDATE statements in canonical form.
UpdateTexts ==
    {<<"UPDATE", " ", "t">> \o using \o <<" ", "SET", " ">> \o assignments
            \o <<" ", "WHERE", " ", "k", " ", "=", " ", "1">> \o if :
        using \in Optional(UsingTexts),
        assignments \in Lists(AssignmentTexts, <<",", " ">>, MaxList),
        if \in Optional(IfTexts)}

\* DELETE statements in canonical form.
DeleteTexts ==
    {<<"DELETE">> \o selections \o <<" ", "FROM", " ">> \o table \o using
            \o <<" ", "WHERE", " ", "k", " ", "=", " ", "1">> \o if :
        selections \in Optional({<<"v">>}),
        table \in TableTexts,
        using \in Optional(UsingTexts),
        if \in Optional(IfTexts)}

\* The statements of the sampled batches.
ModificationTexts ==
    {<<"INSERT", " ", "INTO", " ", "t", " ", "(", "k", ")", " ", "VALUES", " ",
       "(", "1", ")", " ", "USING", " ", "TTL", " ", "1">>,
     <<"UPDATE", " ", "t", " ", "SET", " ", "v", " ", "=", " ", "1", " ",
       "WHERE", " ", "k", " ", "=", " ", "1">>,
     <<"DELETE", " ", "FROM", " ", "t", " ", "WHERE", " ", "k", " ", "=", " ", "1", " ",
       "IF", " ", "EXISTS">>}

\* BATCH statements in canonical form.
BatchTexts ==
    {<<"BEGIN">> \o kind \o <<" ", "BATCH">> \o using \o <<" ">> \o statements
            \o <<" ", "APPLY", " ", "BATCH">> :
        kind \in Optional({<<"UNLOGGED">>, <<"COUNTER">>}),
        using \in Optional(UsingTexts),
        statements \in Lists(ModificationTexts, <<";", " ">>, MaxList)}

\* stream.parse::<S>() for the statement type S of a kind.
Statement_parse(kind, s) ==
    CASE kind = "Select" -> SelectStatement_parse(s)
      [] kind = "Insert" -> InsertStatement_parse(s)
      [] kind = "Update" -> UpdateStatement_parse(s)
      [] kind = "Delete" -> DeleteStatement_parse(s)
      [] kind = "Batch" -> BatchStatement_parse(s)

\* to_string() of a parsed statement.
Statement_fmt(statement) ==
    CASE statement.kind = "Select" -> SelectStatement_fmt(statement)
      [] statement.kind = "Insert" -> InsertStatement_fmt(statement)
      [] statement.kind = "Update" -> UpdateStatement_fmt(statement)
      [] statement.kind = "Delete" -> DeleteStatement_fmt(statement)
      [] statement.kind = "Batch" -> BatchStatement_fmt(statement)

\* The canonical texts by kind of statement.
DmlTexts ==
    {[kind |-> "Select", text |-> text] : text \in SelectTexts}
        \cup {[kind |-> "Insert", text |-> text] : text \in InsertTexts}
        \cup {[kind |-> "Update", text |-> text] : text \in UpdateTexts}
        \cup {[kind |-> "Delete", text |-> text] : text \in DeleteTexts}
        \cup {[kind |-> "Batch", text |-> text] : text \in BatchTexts}

InitDml ==
    /\ InitCore
    /\ AuxIdle("dml")
    /\ \E statement \in DmlTexts :
        dml = [stage |-> "text", kind |-> statement.kind, text |-> statement.text,
               result |-> Err, shown |-> <<>>]

\* StatementStream::new(statement).parse::<S>().
ParseStatement ==
    /\ dml.stage = "text"
    /\ dml' = [dml EXCEPT !.stage = "parsed", !.result = Statement_parse(dml.kind, dml.text)]
    /\ UNCHANGED coreVars
    /\ AuxUnchanged("dml")

\* to_string() of the parsed statement.
DisplayStatement ==
    /\ dml.stage = "parsed"
    /\ dml.result.ok
    /\ dml' = [dml EXCEPT !.stage = "displayed", !.shown = Statement_fmt(dml.result.value)]
    /\ UNCHANGED coreVars
    /\ AuxUnchanged("dml")

NextDml ==
    \/ ParseStatement
    \/ DisplayStatement

\* A canonical statement text parsed and displayed.
SpecDml == InitDml /\ [][NextDml]_vars

\* C19: a DML statement text in canonical form, of kind SELECT, INSERT,
\* UPDATE, DELETE or BATCH, parses, and the Display of the parsed statement
\* is the text.
C19_ParseDisplayRoundTrip ==
    /\ dml.stage = "parsed" => dml.result.ok
    /\ dml.stage = "displayed" => dml.shown = dml.text

\* ------------------------------------------------------------ worker conversion

\* Response handles given to a conversion.
Handles == {"h1", "h2"}

\* Requests held by a worker: a statement and the routing token.
WorkerRequests == [statement : Statements, token : 0..1]

\* BasicRetryWorker { request, retries }.
BasicRetryWorkers == [request : WorkerRequests, retries : 0..MaxRetries]

\* PrepareWorker { id, retries, request }, with any id and any retry count.
PrepareWorkers ==
    [kind : {"PrepareWorker"}, id : Digests, retries : 0..MaxRetries,
     request : WorkerRequests]

\* IntoRespondingWorker::with_handle for PrepareWorker.
IntoRespondingWorker_with_handle(w, h) ==
    [kind |-> "RespondingPrepareWorker", id |-> w.id, retries |-> w.retries,
     request |-> w.request, handle |-> h]

\* SelectWorker::new(request, handle) with all of its fields.
SelectWorker_new_request(request, h) ==
    [kind |-> "SelectWorker", request |-> request, handle |-> h,
     page_size |-> None, paging_state |-> None, retries |-> 0]

\* RetryableWorker::with_retries: *self.retries_mut() = retries.
RetryableWorker_with_retries(w, retries) == [w EXCEPT !.retries = retries]

\* SelectWorker::from(BasicRetryWorker { request, retries }, handle).
SelectWorker_from(basic, h) ==
    RetryableWorker_with_retries(SelectWorker_new_request(basic.request, h),
                                 basic.retries)

\* ValueWorker::new(request, handle) with all of its fields.
ValueWorker_new_request(request, h) ==
    [kind |-> "ValueWorker", request |-> request, handle |-> h,
     page_size |-> None, paging_state |-> None, retries |-> 0]

ValueWorker_with_retries_keeps_zero(w, retries) == w

\* ValueWorker::with_retries.
ValueWorker_with_retries(w, retries) == [w EXCEPT !.retries = retries]

\* ValueWorker::from(BasicRetryWorker { request, retries }, handle).
ValueWorker_from(basic, h) ==
    ValueWorker_with_retries(ValueWorker_new_request(basic.request, h),
                             basic.retries)

\* A worker about to be converted, and the handle it is converted with.
InitConvert ==
    /\ InitCore
    /\ AuxIdle("conv")
    /\ \E h \in Handles :
        \/ \E w \in PrepareWorkers :
            conv = [stage |-> "given", from |-> "PrepareWorker", source |-> w,
                    handle |-> h, made |-> None]
        \/ \E basic \in BasicRetryWorkers, target \in {"SelectWorker", "ValueWorker"} :
            conv = [stage |-> "given", from |-> target, source |-> basic,
                    handle |-> h, made |-> None]

ConvertPrepareWorker ==
    /\ conv.stage = "given"
    /\ conv.from = "PrepareWorker"
    /\ conv' = [conv EXCEPT !.stage = "converted",
                   !.made = Some(IntoRespondingWorker_with_handle(conv.source, conv.handle))]
    /\ UNCHANGED coreVars
    /\ AuxUnchanged("conv")

ConvertToSelectWorker ==
    /\ conv.stage = "given"
    /\ conv.from = "SelectWorker"
    /\ conv' = [conv EXCEPT !.stage = "converted",
                            !.made = Some(SelectWorker_from(conv.source, conv.handle))]
    /\ UNCHANGED coreVars
    /\ AuxUnchanged("conv")

ConvertToValueWorker ==
    /\ conv.stage = "given"
    /\ conv.from = "ValueWorker"
    /\ conv' = [conv EXCEPT !.stage = "converted",
                            !.made = Some(ValueWorker_from(conv.source, conv.handle))]
    /\ UNCHANGED coreVars
    /\ AuxUnchanged("conv")

NextConvert ==
    \/ ConvertPrepareWorker
    \/ ConvertToSelectWorker
    \/ ConvertToValueWorker

\* Conversions of a worker into a worker with a handle.
SpecConvert == InitConvert /\ [][NextConvert]_vars

\* C21: with_handle gives a RespondingPrepareWorker with the id, retries and
\* request of the PrepareWorker; SelectWorker::from and ValueWorker::from give
\* a worker of their kind with the request and retries of the
\* BasicRetryWorker; each holds the handle it was given.
C21_ConversionKeepsRetryState ==
    conv.stage = "converted" =>
        /\ conv.made.some
        /\ conv.made.value.request = conv.source.request
        /\ conv.made.value.retries = conv.source.retries
        /\ conv.made.value.handle = conv.handle
        /\ IF conv.from = "PrepareWorker"
           THEN /\ conv.made.value.kind = "RespondingPrepareWorker"
                /\ conv.made.value.id = conv.source.id
           ELSE conv.made.value.kind = conv.from

\* A ValueWorker was made from a BasicRetryWorker that had retries left.
C21_Witness ==
    /\ conv.stage = "converted"
    /\ conv.from = "ValueWorker"
    /\ conv.source.retries = MaxRetries
    /\ conv.made.value.retries = MaxRetries
    /\ conv.made.value.request = conv.source.request

\* ------------------------------------------------------------ reprepare conversion

\* Values of the i64 token, scaled down.
NumTokens == 4
\* Shards of a node.
NumShards == 2

Tokens == (0 - (NumTokens \div 2))..(NumTokens - (NumTokens \div 2) - 1)
Keyspaces == {None, Some("ks1"), Some("ks2")}

\* ExecuteSelectRequest::new(frame, token, keyspace, statement).
ExecuteSelectRequest_new(f, token, keyspace, statement) ==
    [kind |-> "ExecuteSelectRequest", frame |-> f, token |-> token,
     keyspace |-> keyspace, statement |-> statement]

\* QueryFrame::from_execute(frame, statement): the statement text with the
\* values of the EXECUTE frame.
QueryFrame_from_execute(f, statement) ==
    [statement |-> statement, values |-> f.values]

ReprepareExt_convert_new_token(request) ==
    [kind |-> "QuerySelectRequest", token |-> 0,
     frame |-> QueryFrame_from_execute(request.frame, request.statement),
     keyspace |-> request.keyspace]

\* ReprepareExt::convert for ExecuteSelectRequest.
ReprepareExt_convert(request) ==
    [kind |-> "QuerySelectRequest", token |-> request.token,
     frame |-> QueryFrame_from_execute(request.frame, request.statement),
     keyspace |-> request.keyspace]

\* ShardAwareExt::token and ShardAwareExt::keyspace of either request.
ShardAwareExt_token(request) == request.token
ShardAwareExt_keyspace(request) == request.keyspace

\* The shard of a token on a node: the biased token scaled to the shards.
Ring_shard(token) == ((token + (NumTokens \div 2)) * NumShards) \div NumTokens

\* The replica of a token in a keyspace: two nodes own one half of the ring
\* each, and ks2 is replicated on the other node.
Ring_replica(keyspace, token) ==
    LET owner == IF token < 0 THEN 1 ELSE 2
    IN  IF keyspace = Some("ks2") THEN 3 - owner ELSE owner

\* Where the router sends a request: the replica and the shard.
Router_route(request) ==
    [node |-> Ring_replica(ShardAwareExt_keyspace(request), ShardAwareExt_token(request)),
     shard |-> Ring_shard(ShardAwareExt_token(request))]

\* An EXECUTE request whose statement the server no longer knows.
InitReprepare ==
    /\ InitCore
    /\ AuxIdle("reprepare")
    /\ \E statement \in Statements, values \in SeqUpTo(BoundValues, 1),
          token \in Tokens, keyspace \in Keyspaces :
        reprepare =
            [stage |-> "execute",
             request |-> ExecuteSelectRequest_new(
                            [id |-> md5_compute(statement), values |-> values],
                            token, keyspace, statement),
             converted |-> None]

Convert ==
    /\ reprepare.stage = "execute"
    /\ reprepare' = [reprepare EXCEPT
                        !.stage = "query",
                        !.converted = Some(ReprepareExt_convert(reprepare.request))]
    /\ UNCHANGED coreVars
    /\ AuxUnchanged("reprepare")

NextReprepare == Convert

\* The conversion of an EXECUTE request into a QUERY request.
SpecReprepare == InitReprepare /\ [][NextReprepare]_vars

\* C22: convert gives a QuerySelectRequest with the token and the keyspace
\* of the EXECUTE request, so the router sends it to the same replica and
\* shard.
C22_ConvertKeepsRouting ==
    reprepare.stage = "query" =>
        /\ reprepare.converted.some
        /\ reprepare.converted.value.kind = "QuerySelectRequest"
        /\ ShardAwareExt_token(reprepare.converted.value) =
               ShardAwareExt_token(reprepare.request)
        /\ ShardAwareExt_keyspace(reprepare.converted.value) =
               ShardAwareExt_keyspace(reprepare.request)
        /\ Router_route(reprepare.converted.value) = Router_route(reprepare.request)

\* A request of keyspace ks2 with a negative token was converted and still
\* routes to node 2, shard 0.
C22_Witness ==
    /\ reprepare.stage = "query"
    /\ reprepare.request.token < 0
    /\ reprepare.request.keyspace = Some("ks2")
    /\ reprepare.converted.value.frame.statement = reprepare.request.statement
    /\ Router_route(reprepare.converted.value) = [node |-> 2, shard |-> 0]

\* ------------------------------------------------------------ value binding

\* Longest slice bound.
MaxSlice == 3

\* Column values; encoding "bad" fails in a Binder.
Encodable == {"k1", "k2"}
Unencodable == {"bad"}

\* What can be bound: one value, the unit, or a slice of values.
Bindables ==
    {[kind |-> "value", value |-> v] : v \in Encodable \cup Unencodable}
        \cup {[kind |-> "unit"]}
        \cup {[kind |-> "slice", elements |-> elements] :
                elements \in SeqUpTo(Encodable \cup Unencodable, MaxSlice)}

\* A binder: the values in the frame and the calls made on it so far.
Binder_with(first) ==
    [values |-> first, calls |-> [i \in 1..Len(first) |-> [op |-> "value", value |-> first[i]]]]

\* Binder::value of scylla-rs: the binder with the value added, or the error
\* of the encoding; the calls made stay known after an error.
Binder_value(binder, v) ==
    LET calls == Append(binder.calls, [op |-> "value", value |-> v])
    IN  IF v \in Unencodable
        THEN [ok |-> FALSE, error |-> v, calls |-> calls]
        ELSE [ok |-> TRUE, value |-> [values |-> Append(binder.values, v), calls |-> calls]]

\* Bindable for T: ColumnEncoder (scylla-rs).
Bindable_value_bind(v, binder) == Binder_value(binder, v)

\* Bindable for () (scylla-rs).
Bindable_unit_bind(binder) == [ok |-> TRUE, value |-> binder]

RECURSIVE Bindable_slice_bind(_, _)
\* Bindable for [T] (scylla-rs): for v in self.iter() { binder = v.bind(binder)? }.
Bindable_slice_bind(elements, binder) ==
    IF elements = <<>> THEN [ok |-> TRUE, value |-> binder]
    ELSE with(Bindable_value_bind(Head(elements), binder), LAMBDA res :
            IF res.ok THEN Bindable_slice_bind(Tail(elements), res.value) ELSE res)

\* Binder::bind: values.bind(self).
Binder_bind(binder, bindable) ==
    IF bindable.kind = "value" THEN Bindable_value_bind(bindable.value, binder)
    ELSE IF bindable.kind = "unit" THEN Bindable_unit_bind(binder)
    ELSE Bindable_slice_bind(bindable.elements, binder)

\* Values::value and Values::skip_value (src/src): the builder returned.
Values_value(binder, v) ==
    [values |-> Append(binder.values, v),
     calls |-> Append(binder.calls, [op |-> "value", value |-> v])]

Values_skip_value(binder) ==
    [binder EXCEPT !.calls = Append(binder.calls, [op |-> "skip_value"])]

RECURSIVE Values_for_loop(_, _)
\* for v in iter { builder = builder.value(v) }.
Values_for_loop(iter, builder) ==
    IF iter = <<>> THEN builder
    ELSE Values_for_loop(Tail(iter), Values_value(builder, Head(iter)))

Values_slice_bind_first_only(elements, binder) ==
    IF Len(elements) = 0 THEN Values_skip_value(binder)
    ELSE Values_value(binder, Head(elements))

\* Bindable for [T] (src/src): match self.len() { 0 => .., 1 => .., _ => .. }.
Values_slice_bind(elements, binder) ==
    IF Len(elements) = 0 THEN Values_skip_value(binder)
    ELSE IF Len(elements) = 1 THEN Values_value(binder, Head(elements))
    ELSE Values_for_loop(Tail(elements), Values_value(binder, Head(elements)))

\* Values::bind: values.bind(self).
Values_bind(binder, bindable) ==
    IF bindable.kind = "value" THEN Values_value(binder, bindable.value)
    ELSE Values_slice_bind(bindable.elements, binder)

\* A binder with no value or one value, and something to bind to it.
InitBinding ==
    /\ InitCore
    /\ AuxIdle("binding")
    /\ \E first \in SeqUpTo(Encodable, 1), bindable \in Bindables,
          api \in {"Binder", "Values"} :
        /\ api = "Values" => bindable.kind # "unit"
        /\ binding = [stage |-> "given", api |-> api, binder |-> Binder_with(first),
                      bindable |-> bindable, result |-> Err]

BinderBind ==
    /\ binding.stage = "given"
    /\ binding.api = "Binder"
    /\ binding' = [binding EXCEPT !.stage = "bound",
                       !.result = Binder_bind(binding.binder, binding.bindable)]
    /\ UNCHANGED coreVars
    /\ AuxUnchanged("binding")

ValuesBind ==
    /\ binding.stage = "given"
    /\ binding.api = "Values"
    /\ binding' = [binding EXCEPT !.stage = "bound",
                       !.result = Ok(Values_bind(binding.binder, binding.bindable))]
    /\ UNCHANGED coreVars
    /\ AuxUnchanged("binding")

NextBinding ==
    \/ BinderBind
    \/ ValuesBind

\* Binder::bind and Values::bind applied to values, the unit and slices.
SpecBinding == InitBinding /\ [][NextBinding]_vars

\* The calls value(e[1]), .., value(e[n]).
ValueCalls(elements, n) == [i \in 1..n |-> [op |-> "value", value |-> elements[i]]]

\* The index of the first element whose encoding fails, or 0.
FirstFailing(elements) ==
    IF \E i \in 1..Len(elements) : elements[i] \in Unencodable
    THEN CHOOSE i \in 1..Len(elements) :
            /\ elements[i] \in Unencodable
            /\ \A j \in 1..(i - 1) : elements[j] \notin Unencodable
    ELSE 0

\* C23: binding a slice makes the calls value(e) for its elements in slice
\* order and adds those values after the values already bound; in the Binder
\* an empty slice and () make no call, and a failing element ends the
\* binding with its error after the calls up to it; in the Values binder an
\* empty slice makes the one call skip_value and adds no value.
C23_SliceBindIsValuePerElement ==
    binding.stage = "bound" /\ binding.bindable.kind # "value" =>
        LET before == binding.binder
            elements == IF binding.bindable.kind = "unit" THEN <<>>
                        ELSE binding.bindable.elements
            n == Len(elements)
            failing == FirstFailing(elements)
        IN  IF binding.api = "Binder"
            THEN IF failing = 0
                 THEN /\ binding.result.ok
                      /\ binding.result.value.values = before.values \o elements
                      /\ binding.result.value.calls = before.calls \o ValueCalls(elements, n)
                 ELSE /\ ~binding.result.ok
                      /\ binding.result.error = elements[failing]
                      /\ binding.result.calls = before.calls \o ValueCalls(elements, failing)
            ELSE IF n = 0
                 THEN /\ binding.result.value.values = before.values
                      /\ binding.result.value.calls =
                            Append(before.calls, [op |-> "skip_value"])
                 ELSE /\ binding.result.value.values = before.values \o elements
                      /\ binding.result.value.calls = before.calls \o ValueCalls(elements, n)

\* A slice of three values was bound through Values after one value, and a
\* Binder stopped at the second of three elements.
C23_Witness ==
    /\ binding.stage = "bound"
    /\ binding.bindable.kind = "slice"
    /\ Len(binding.bindable.elements) = MaxSlice
    /\ \/ /\ binding.api = "Values"
          /\ Len(binding.binder.values) = 1
          /\ Len(binding.result.value.values) = MaxSlice + 1
       \/ /\ binding.api = "Binder"
          /\ ~binding.result.ok
          /\ Len(binding.result.calls) = 2

\* ------------------------------------------------------------ header flags

\* HeaderFlags::COMPRESSION, TRACING, CUSTOM_PAYLOAD, WARNING.
HeaderFlags_COMPRESSION == 1
HeaderFlags_TRACING == 2
HeaderFlags_CUSTOM_PAYLOAD == 4
HeaderFlags_WARNING == 8

\* The values of a u8.
U8 == 0..255

\* Bit i of a u8.
u8_bit(x, i) == (x \div (2 ^ i)) % 2

RECURSIVE u8_bitwise(_, _, _, _)
\* a & b and a | b, bit by bit from bit i upwards.
u8_bitwise(op, a, b, i) ==
    IF i = 8 THEN 0
    ELSE LET bit == IF op = "&" THEN u8_bit(a, i) * u8_bit(b, i)
                    ELSE IF u8_bit(a, i) + u8_bit(b, i) > 0 THEN 1 ELSE 0
         IN  bit * (2 ^ i) + u8_bitwise(op, a, b, i + 1)

u8_and(a, b) == u8_bitwise("&", a, b, 0)
u8_or(a, b) == u8_bitwise("|", a, b, 0)
\* !a on a u8.
u8_not(a) == 255 - a

\* compression(), tracing(), custom_payload(), warning(): self.0 & FLAG != 0.
HeaderFlags_get(self, mask) == u8_and(self, mask) # 0

HeaderFlags_set_always_sets(self, mask, value) == u8_or(self, mask)

\* set_compression(value), ..: self.0 |= FLAG or self.0 &= !FLAG.
HeaderFlags_set(self, mask, value) ==
    IF value THEN u8_or(self, mask) ELSE u8_and(self, u8_not(mask))

HeaderFlags_compression(self) == HeaderFlags_get(self, HeaderFlags_COMPRESSION)
HeaderFlags_tracing(self) == HeaderFlags_get(self, HeaderFlags_TRACING)
HeaderFlags_custom_payload(self) == HeaderFlags_get(self, HeaderFlags_CUSTOM_PAYLOAD)
HeaderFlags_warning(self) == HeaderFlags_get(self, HeaderFlags_WARNING)

\* A flags byte read from a frame: any u8.
InitFlags ==
    /\ InitCore
    /\ AuxIdle("flags")
    /\ \E byte \in U8 :
        flags = [stage |-> "read", byte |-> byte, before |-> byte,
                 setter |-> "none", value |-> FALSE, repeated |-> FALSE]

\* One setter call; repeated tells whether the call before it was the same.
SetFlag(setter, mask, value) ==
    /\ flags.stage \in {"read", "set"}
    /\ flags' = [stage |-> "set",
                 byte |-> HeaderFlags_set(flags.byte, mask, value),
                 before |-> flags.byte,
                 setter |-> setter, value |-> value,
                 repeated |-> (flags.stage = "set" /\ flags.setter = setter
                                /\ flags.value = value)]
    /\ UNCHANGED coreVars
    /\ AuxUnchanged("flags")

SetCompression ==
    \E value \in BOOLEAN : SetFlag("set_compression", HeaderFlags_COMPRESSION, value)

SetTracing ==
    \E value \in BOOLEAN : SetFlag("set_tracing", HeaderFlags_TRACING, value)

SetCustomPayload ==
    \E value \in BOOLEAN : SetFlag("set_custom_payload", HeaderFlags_CUSTOM_PAYLOAD, value)

SetWarning ==
    \E value \in BOOLEAN : SetFlag("set_warning", HeaderFlags_WARNING, value)

NextFlags ==
    \/ SetCompression
    \/ SetTracing
    \/ SetCustomPayload
    \/ SetWarning

\* Setter calls on a HeaderFlags.
SpecFlags == InitFlags /\ [][NextFlags]_vars

\* The getter that goes with a setter, and the bit it reads.
GetterOf(setter, self) ==
    IF setter = "set_compression" THEN HeaderFlags_compression(self)
    ELSE IF setter = "set_tracing" THEN HeaderFlags_tracing(self)
    ELSE IF setter = "set_custom_payload" THEN HeaderFlags_custom_payload(self)
    ELSE HeaderFlags_warning(self)

BitOf(setter) ==
    IF setter = "set_compression" THEN 0
    ELSE IF setter = "set_tracing" THEN 1
    ELSE IF setter = "set_custom_payload" THEN 2
    ELSE 3

\* C24: after a setter was called with value, its getter returns value and
\* the other seven bits of the byte are as before the call; a call that
\* repeats the call before it leaves the byte as it was.
C24_FlagSetters ==
    flags.stage = "set" =>
        /\ GetterOf(flags.setter, flags.byte) = flags.value
        /\ \A i \in 0..7 :
            i # BitOf(flags.setter) => u8_bit(flags.byte, i) = u8_bit(flags.before, i)
        /\ flags.repeated => flags.byte = flags.before

\* set_tracing(false) was called twice on a byte that had the tracing flag
\* and unused high bits set.
C24_Witness ==
    /\ flags.stage = "set"
    /\ flags.setter = "set_tracing"
    /\ ~flags.value
    /\ flags.repeated
    /\ flags.byte = 128 + 8 + 1

\* ------------------------------------------------------------ row iterator

\* Calls of next made after the iterator has returned None.
MaxNone == 2
\* Columns of a row: Row for the tuple (T, TT).
ColumnsPerRow == 2

\* An encoded column: null (length -1), another negative length, an empty
\* value (length 0), or one or two bytes.
IterColumns ==
    EncodedColumns \cup {<<255, 255, 255, 254>>, <<0, 0, 0, 0>>}

RECURSIVE IterRows(_)
\* The encodings of n columns.
IterRows(n) ==
    IF n = 0 THEN {<<>>}
    ELSE {col \o rest : col \in IterColumns, rest \in IterRows(n - 1)}

\* Rows results that hold every row they declare: the count, then the rows
\* of ColumnsPerRow columns each.
IterBodies ==
    UNION {{<<0, 0, 0, n>> \o encoded : encoded \in IterRows(n * ColumnsPerRow)} :
            n \in 0..MaxRows}

RECURSIVE Row_decode_row(_, _, _, _)
\* Row::decode_row for a tuple: rows.column_value() for each column in turn;
\* calls logs the length prefix, the cursor before and after, and the value
\* of every column_value call.
Row_decode_row(buffer, iter, columns, calls) ==
    IF columns = 0 THEN [panic |-> FALSE, iter |-> iter, calls |-> calls]
    ELSE with(Iter_column_value(buffer, iter), LAMBDA column :
            IF column.panic THEN [panic |-> TRUE]
            ELSE Row_decode_row(
                    buffer, column.iter, columns - 1,
                    Append(calls,
                           [length |-> i32_from_be_bytes(
                                          SubSeq(buffer, iter.column_start + 1,
                                                 iter.column_start + 4)),
                            from |-> iter.column_start,
                            to |-> column.iter.column_start,
                            value |-> column.value])))

Iter_next_row_keeps_count(buffer, iter) ==
    IF iter.remaining_rows_count > 0
    THEN with(Row_decode_row(buffer, iter, ColumnsPerRow, <<>>), LAMBDA row :
            IF row.panic THEN [panic |-> TRUE]
            ELSE [panic |-> FALSE, some |-> TRUE, iter |-> row.iter, calls |-> row.calls])
    ELSE [panic |-> FALSE, some |-> FALSE, iter |-> iter, calls |-> <<>>]

\* Iterator::next for Iter over rows of ColumnsPerRow columns.
Iter_next_row(buffer, iter) ==
    IF iter.remaining_rows_count > 0
    THEN with(Row_decode_row(buffer, [iter EXCEPT !.remaining_rows_count = @ - 1],
                             ColumnsPerRow, <<>>),
              LAMBDA row :
            IF row.panic THEN [panic |-> TRUE]
            ELSE [panic |-> FALSE, some |-> TRUE, iter |-> row.iter, calls |-> row.calls])
    ELSE [panic |-> FALSE, some |-> FALSE, iter |-> iter, calls |-> <<>>]

InitIter ==
    /\ InitCore
    /\ AuxIdle("rowiter")
    /\ \E buffer \in IterBodies :
        rowiter = [stage |-> "body", buffer |-> buffer, iter |-> NoIter,
                   yielded |-> 0, nones |-> 0, last |-> "new", before |-> 0,
                   calls |-> <<>>]

\* Iter::new(decoder).
NewIter ==
    /\ rowiter.stage = "body"
    /\ rowiter' = with(Iter_new(rowiter.buffer, 0), LAMBDA iter :
            IF iter.panic
            THEN [rowiter EXCEPT !.stage = "panicked"]
            ELSE [rowiter EXCEPT !.stage = "iterating", !.iter = iter,
                                 !.before = iter.remaining_rows_count])
    /\ UNCHANGED coreVars
    /\ AuxUnchanged("rowiter")

\* iter.next(), also after it has returned None.
NextRow ==
    /\ rowiter.stage = "iterating"
    /\ rowiter.nones < MaxNone
    /\ rowiter' = with(Iter_next_row(rowiter.buffer, rowiter.iter), LAMBDA next :
            IF next.panic THEN [rowiter EXCEPT !.stage = "panicked"]
            ELSE IF next.some
            THEN [rowiter EXCEPT !.iter = next.iter,
                                 !.yielded = @ + 1,
                                 !.last = "row",
                                 !.before = rowiter.iter.remaining_rows_count,
                                 !.calls = @ \o next.calls]
            ELSE [rowiter EXCEPT !.nones = @ + 1,
                                 !.last = "none",
                                 !.before = rowiter.iter.remaining_rows_count])
    /\ UNCHANGED coreVars
    /\ AuxUnchanged("rowiter")

NextIter ==
    \/ NewIter
    \/ NextRow

\* The row iterator run over results that hold the rows they declare.
SpecIter == InitIter /\ [][NextIter]_vars

\* The row count the body declares.
DeclaredRows(buffer) == i32_from_be_bytes(SubSeq(buffer, 1, 4))

\* C25: over a result that declares n rows the iterator yields exactly n
\* rows and then None on every later call; remaining_rows_count goes down by
\* exactly 1 with every row yielded and is never below 0.
C25_IterYieldsDeclaredRows ==
    /\ rowiter.stage \notin {"idle", "body"} => rowiter.stage = "iterating"
    /\ rowiter.stage = "iterating" =>
        /\ rowiter.iter.remaining_rows_count >= 0
        /\ rowiter.yielded + rowiter.iter.remaining_rows_count =
               DeclaredRows(rowiter.buffer)
        /\ rowiter.last = "row" =>
            /\ rowiter.iter.remaining_rows_count = rowiter.before - 1
            /\ rowiter.nones = 0
        /\ rowiter.last = "none" =>
            /\ rowiter.iter.remaining_rows_count = 0
            /\ rowiter.before = 0
            /\ rowiter.yielded = DeclaredRows(rowiter.buffer)

\* MaxRows rows were yielded and next then returned None MaxNone times.
C25_Witness ==
    /\ rowiter.stage = "iterating"
    /\ DeclaredRows(rowiter.buffer) = MaxRows
    /\ rowiter.yielded = MaxRows
    /\ rowiter.nones = MaxNone

RECURSIVE SumPositive(_)
\* The sum of the positive length prefixes of the calls.
SumPositive(calls) ==
    IF calls = <<>> THEN 0
    ELSE (IF Head(calls).length > 0 THEN Head(calls).length ELSE 0)
            + SumPositive(Tail(calls))

\* C26: column_value moves the cursor by 4 for a column whose length prefix
\* is negative or zero and decodes it from the empty slice, and by
\* 4 + length for a positive length, decoding those length bytes; after k
\* columns the cursor is 4k plus the sum of the positive lengths past the
\* first column.
C26_ColumnCursor ==
    rowiter.stage = "iterating" =>
        /\ \A i \in 1..Len(rowiter.calls) :
            LET call == rowiter.calls[i]
            IN  IF call.length > 0
                THEN /\ call.to = call.from + 4 + call.length
                     /\ call.value =
                            SubSeq(rowiter.buffer, call.from + 5, call.from + 4 + call.length)
                ELSE /\ call.to = call.from + 4
                     /\ call.value = <<>>
        /\ rowiter.iter.column_start =
               4 + 4 * Len(rowiter.calls) + SumPositive(rowiter.calls)

\* Four columns were read: a NULL, an empty value and two values of one and
\* two bytes.
C26_Witness ==
    /\ rowiter.stage = "iterating"
    /\ Len(rowiter.calls) = 4
    /\ \E i \in 1..4 : rowiter.calls[i].length = 0 - 1
    /\ \E i \in 1..4 : rowiter.calls[i].length = 0
    /\ \E i \in 1..4 : rowiter.calls[i].length = 1
    /\ \E i \in 1..4 : rowiter.calls[i].length = 2
    /\ rowiter.iter.column_start = 4 + 16 + 3

\* ------------------------------------------------------------ names

\* Longest name.
MaxNameLen == 3

\* Characters of an unquoted name (alphanumeric or '_'), and of a quoted one.
UnquotedChars == {"a", "s", "_"}
QuotedChars == {"a", " "}

\* ReservedKeyword::from_str(&res).is_ok(), for the one keyword that can be
\* spelled with the characters above.
ReservedKeyword_from_str(res) == res = <<"a", "s">>

\* Name::Quoted(String) and Name::Unquoted(String), the string as characters.
Name_Quoted(string) == [kind |-> "Quoted", string |-> string]
Name_Unquoted(string) == [kind |-> "Unquoted", string |-> string]

\* The names of the round trip: every quoted name without a quote character
\* in it, and every unquoted name that is not empty and not reserved.
Names ==
    {Name_Quoted(string) : string \in SeqUpTo(QuotedChars, MaxNameLen)}
        \cup {Name_Unquoted(string) :
                string \in {u \in SeqUpTo(UnquotedChars, MaxNameLen) :
                                u # <<>> /\ ~ReservedKeyword_from_str(u)}}

RECURSIVE Name_parse_quoted(_, _)
\* while let Some(c) = s.next(): the characters up to the next '"'; the
\* stream still holds the opening '"' when the loop starts.
Name_parse_quoted(s, res) ==
    IF s = <<>> THEN Err
    ELSE IF Head(s) = "\"" THEN Parsed(Name_Quoted(res), Tail(s))
    ELSE Name_parse_quoted(Tail(s), Append(res, Head(s)))

RECURSIVE Name_parse_unquoted(_, _)
\* while let Some(c) = s.peek(): the alphanumeric characters and '_'.
Name_parse_unquoted(s, res) ==
    IF s # <<>> /\ Head(s) \in UnquotedChars
    THEN Name_parse_unquoted(Tail(s), Append(res, Head(s)))
    ELSE IF res = <<>> THEN Err
    ELSE IF ReservedKeyword_from_str(res) THEN Err
    ELSE Parsed(Name_Unquoted(res), s)

\* Name::parse on the characters of the stream.
Name_parse_chars(s) ==
    IF s # <<>> /\ Head(s) = "\"" THEN Name_parse_quoted(s, <<>>)
    ELSE Name_parse_unquoted(s, <<>>)

\* StatementStream::parse::<Name>: skip_whitespace, then Name::parse.
StatementStream_parse_Name(s) == Name_parse_chars(skip_whitespace(s))

\* Display for Name.
Name_fmt_chars(name) ==
    IF name.kind = "Quoted" THEN <<"\"">> \o name.string \o <<"\"">>
    ELSE name.string

InitName ==
    /\ InitCore
    /\ AuxIdle("nm")
    /\ \E name \in Names :
        nm = [stage |-> "name", name |-> name, text |-> <<>>, result |-> Err]

\* name.to_string().
DisplayName ==
    /\ nm.stage = "name"
    /\ nm' = [nm EXCEPT !.stage = "text", !.text = Name_fmt_chars(nm.name)]
    /\ UNCHANGED coreVars
    /\ AuxUnchanged("nm")

\* StatementStream::new(&text).parse::<Name>().
ParseName ==
    /\ nm.stage = "text"
    /\ nm' = [nm EXCEPT !.stage = "parsed",
                        !.result = StatementStream_parse_Name(nm.text)]
    /\ UNCHANGED coreVars
    /\ AuxUnchanged("nm")

NextName ==
    \/ DisplayName
    \/ ParseName

\* Names written with Display and read back with Parse.
SpecName == InitName /\ [][NextName]_vars

\* C27: parsing the Display of a name succeeds, reads the whole text and
\* gives the name again.
C27_NameRoundTrip ==
    nm.stage = "parsed" =>
        /\ nm.result.ok
        /\ nm.result.rest = <<>>
        /\ nm.result.value = nm.name

\* ------------------------------------------------------------ ordering clause

\* Where the ORDER BY clause of a text starts, or 0.
OrderByAt(text) ==
    IF \E i \in 1..Len(text) : text[i] = "ORDER"
    THEN CHOOSE i \in 1..Len(text) : text[i] = "ORDER"
    ELSE 0

\* The column orders the clause ORDER BY <column> <ASC|DESC> of a text names.
OrderByOf(text) ==
    LET i == OrderByAt(text)
    IN  <<[column |-> text[i + 4],
           order |-> IF text[i + 6] = "ASC" THEN "Ascending" ELSE "Descending"]>>

\* C28: a SELECT text with the clause ORDER BY <column> <ASC|DESC> parses
\* into a statement whose order_by_clause holds that column order, and the
\* Display of the statement has the same ORDER BY clause.
C28_OrderByParses ==
    dml.stage \in {"parsed", "displayed"} /\ dml.kind = "Select"
            /\ OrderByAt(dml.text) > 0 =>
        /\ dml.result.ok
        /\ dml.result.value.order_by_clause = Some(OrderByOf(dml.text))
        /\ dml.stage = "displayed" =>
            /\ OrderByAt(dml.shown) > 0
            /\ SubSeq(dml.shown, OrderByAt(dml.shown), OrderByAt(dml.shown) + 6) =
                   SubSeq(dml.text, OrderByAt(dml.text), OrderByAt(dml.text) + 6)

====
